---------------------------- MODULE Spec2Model ----------------------------
(***************************************************************************)
(* Boke feed ingestion engine: the three dialect parsers (RSS 2.0, RSS 1.0, *)
(* Atom), format detection, and the ingestion coordinator (add / refresh /  *)
(* refresh-all) over the article store with its UNIQUE(feed_id, guid) key.  *)
(*                                                                         *)
(* Strings are TLA+ strings, "" is the empty string.  Option<T> is a        *)
(* sequence of length 0 (None) or 1 (Some).  An element name is kept as its *)
(* prefix and its local name.                                              *)
(***************************************************************************)
EXTENDS Naturals, Sequences, FiniteSets, TLC

VARIABLES
    \* ---- parser run (ParserSpec) ----
    doc,        \* the document being served, see Docs
    events,     \* the events the XML reader has still to deliver
    fmt,        \* detect_format's result: None or Some(format)
    p,          \* the dialect parser's local state
    ppc,        \* "detect" | "parse" | "done"
    edit,       \* how the publisher changed the document before the last fetch
    parsed,     \* the results of the parses finished so far, in order
    \* ---- ingestion coordinator (Spec) ----
    impl,       \* "core" (FeedService) or "tauri" (desktop commands)
    feeds,      \* the feeds table: set of rows
    articles,   \* the articles table: set of rows
    ops         \* the operations started so far, each with its tasks

pvars == <<doc, events, fmt, p, ppc, edit, parsed>>
cvars == <<impl, feeds, articles, ops>>
vars == <<doc, events, fmt, p, ppc, edit, parsed, impl, feeds, articles, ops>>

None == <<>>
Some(x) == <<x>>
IsSome(o) == Len(o) = 1
Unwrap(o) == o[1]

-----------------------------------------------------------------------------
(* Bounds *)

\* longest document, in items / entries
MaxItems == 2
\* number of operations (commands, requests) started in one run
MaxOps == 2

-----------------------------------------------------------------------------
(* XML events, as quick_xml's Reader delivers them *)

Name(prefix, local) == [prefix |-> prefix, local |-> local]
NoName == Name("", "")
\* e.name(): the qualified name
full_name(n) == IF n.prefix = "" THEN n.local ELSE n.prefix \o ":" \o n.local
\* e.local_name(): the name without its prefix
local_name(n) == n.local

\* attrs is the attribute list in document order, each <<key Name, value>>
Ev(kind, name, attrs, text) ==
    [kind |-> kind, name |-> name, attrs |-> attrs, text |-> text]
Start(n, attrs) == Ev("Start", n, attrs, "")
Empty(n, attrs) == Ev("Empty", n, attrs, "")
End(n) == Ev("End", n, <<>>, "")
Text(t) == Ev("Text", NoName, <<>>, t)
CData(t) == Ev("CData", NoName, <<>>, t)
Decl == Ev("Decl", NoName, <<>>, "")
Comment == Ev("Comment", NoName, <<>>, "")
PI == Ev("PI", NoName, <<>>, "")
DocType == Ev("DocType", NoName, <<>>, "")
\* the kinds no parser arm names
OtherKinds == {"Decl", "Comment", "PI", "DocType"}
Eof == Ev("Eof", NoName, <<>>, "")
XmlErr == Ev("Err", NoName, <<>>, "")

-----------------------------------------------------------------------------
(* Canonical model *)

NewFeedValue(feed_url) ==
    [title |-> "", link |-> "", feed_url |-> feed_url,
     description |-> None, language |-> None, last_updated |-> None, entries |-> <<>>]

NewFeedEntry(id) ==
    [id |-> id, title |-> "", link |-> "", content |-> None, summary |-> None,
     author |-> None, published |-> None, updated |-> None, categories |-> <<>>,
     image_url |-> None]

\* format!("{}-{}", feed_url, feed.entries.len())
IndexId(feed_url, n) == feed_url \o "-" \o ToString(n)


-----------------------------------------------------------------------------
(* Dialect parsers: the local state of parse() *)

\* the locals of parse() before its loop
ParserInit(feed_url) ==
    [feed |-> NewFeedValue(feed_url),
     in_channel |-> FALSE, in_item |-> FALSE, in_author |-> FALSE,
     current_entry |-> None,
     current_tag |-> "", current_ns_tag |-> NoName,
     result |-> "running"]

\* `for attr in e.attributes() { match key { k => x = val } }`: the value of
\* the last attribute whose qualified key is `key`, else the default
RECURSIVE AttrValue(_, _, _)
AttrValue(attrs, key, default) ==
    IF attrs = <<>> THEN default
    ELSE LET last == attrs[Len(attrs)]
         IN  IF full_name(last[1]) = key THEN last[2]
             ELSE AttrValue(SubSeq(attrs, 1, Len(attrs) - 1), key, default)

\* the same, matching the key's local name (attr.key.local_name())
RECURSIVE AttrValueLocal(_, _, _)
AttrValueLocal(attrs, key, default) ==
    IF attrs = <<>> THEN default
    ELSE LET last == attrs[Len(attrs)]
         IN  IF local_name(last[1]) = key THEN last[2]
             ELSE AttrValueLocal(SubSeq(attrs, 1, Len(attrs) - 1), key, default)

\* ns_tag.contains(needle), ns_tag being the qualified name "prefix:local".
\* The local names the parsers test it under (encoded, creator, date, subject,
\* language) hold neither needle, so the prefix decides.
ns_contains(ns_tag, needle) ==
    \/ needle = "dc" /\ ns_tag.prefix \in {"dc", "dcterms"}
    \/ needle = "content" /\ ns_tag.prefix \in {"content"}

\* ---- Dates (crates/boke-core/src/feed/date.rs) ----

\* the timestamps a date string can stand for are 1..MaxStamp
MaxStamp == 2

\* parse_date's attempts in the order of its code: RFC 3339, RFC 2822,
\* RFC 2822 on the string with its zone names replaced, the nine naive
\* patterns, the date-only pattern
Attempts ==
    <<"rfc3339", "rfc2822", "rfc2822_normalized", "%Y-%m-%dT%H:%M:%S",
      "%Y-%m-%d %H:%M:%S", "%Y-%m-%dT%H:%M:%SZ", "%d %b %Y %H:%M:%S",
      "%d %B %Y %H:%M:%S", "%a, %d %b %Y %H:%M:%S", "%Y-%m-%d as date-time",
      "%d/%m/%Y %H:%M:%S", "%m/%d/%Y %H:%M:%S", "%Y-%m-%d">>

\* a date string, by what the code can tell of it: spaces (white space
\* stands around it), blank (empty once trimmed), named (one of the zone
\* names GMT, EST, ... occurs in it, so the replacement changes it), and
\* ok[i], what chrono's parser of attempt i returns for the trimmed string:
\* 0 for Err, else the timestamp
DateInput(spaces, blank, named, a, ta, b, tb) ==
    [spaces |-> spaces, blank |-> blank, named |-> named,
     ok |-> [i \in 1..Len(Attempts) |-> IF i = a THEN ta ELSE IF i = b THEN tb ELSE 0]]

\* the locals of parse_date: the attempt it is at, the attempts it has made,
\* and its return value once it has returned
DateInit == [i |-> 0, tried |-> <<>>, returned |-> FALSE, value |-> None]

\* parse_date from one attempt to the next: trim and the empty check, then
\* each `if let Ok(..) = .. { return Some(..) }` in turn, then None
\* a parse_date that falls back to a timestamp when nothing matches
parse_date_step_defaulting(input, st) ==
    LET i == st.i IN
    CASE i = 0 ->
           IF input.blank THEN [st EXCEPT !.returned = TRUE]
           ELSE [st EXCEPT !.i = 1]
      [] i > Len(Attempts) -> [st EXCEPT !.returned = TRUE, !.value = Some(1)]
      [] i = 3 /\ ~input.named -> [st EXCEPT !.i = i + 1]
      [] OTHER ->
           IF input.ok[i] # 0
           THEN [st EXCEPT !.tried = Append(@, i), !.returned = TRUE,
                           !.value = Some(input.ok[i])]
           ELSE [st EXCEPT !.tried = Append(@, i), !.i = i + 1]

\* a parse_date that parses the replaced string whether or not the
\* replacement changed it
parse_date_step_always_replacing(input, st) ==
    LET i == st.i IN
    CASE i = 0 ->
           IF input.blank THEN [st EXCEPT !.returned = TRUE]
           ELSE [st EXCEPT !.i = 1]
      [] i > Len(Attempts) -> [st EXCEPT !.returned = TRUE]
      [] OTHER ->
           IF input.ok[i] # 0
           THEN [st EXCEPT !.tried = Append(@, i), !.returned = TRUE,
                           !.value = Some(input.ok[i])]
           ELSE [st EXCEPT !.tried = Append(@, i), !.i = i + 1]

parse_date_step(input, st) ==
    LET i == st.i IN
    CASE i = 0 ->
           IF input.blank THEN [st EXCEPT !.returned = TRUE]
           ELSE [st EXCEPT !.i = 1]
      [] i > Len(Attempts) -> [st EXCEPT !.returned = TRUE]
      [] i = 3 /\ ~input.named -> [st EXCEPT !.i = i + 1]
      [] OTHER ->
           IF input.ok[i] # 0
           THEN [st EXCEPT !.tried = Append(@, i), !.returned = TRUE,
                           !.value = Some(input.ok[i])]
           ELSE [st EXCEPT !.tried = Append(@, i), !.i = i + 1]

RECURSIVE parse_date_run(_, _)
parse_date_run(input, st) ==
    IF st.returned THEN st ELSE parse_date_run(input, parse_date_step(input, st))

parse_date(input) == parse_date_run(input, DateInit).value

\* the date strings of the feeds: "d1" and "d2" are RFC 2822 and RFC 3339
\* dates of timestamps 1 and 2, any other text is no date
AsDate(text) ==
    CASE text = "d1" -> DateInput(FALSE, FALSE, FALSE, 2, 1, 3, 1)
      [] text = "d2" -> DateInput(FALSE, FALSE, FALSE, 1, 2, 1, 2)
      [] OTHER -> DateInput(FALSE, text = "", FALSE, 1, 0, 1, 0)

\* ---- RSS 2.0 (src-tauri/src/feed/rss2.rs) ----

\* an id synthesis without the link fallback
rss2_finish_item_nolink(s) ==
    LET entry == Unwrap(s.current_entry)
        done == IF entry.id = ""
                THEN [entry EXCEPT !.id = IndexId(s.feed.feed_url, Len(s.feed.entries))]
                ELSE entry
    IN  [s EXCEPT !.feed.entries = Append(@, done), !.current_entry = None]

\* an end of </item> that puts the entry in front of the earlier ones
rss2_finish_item_in_front(s) ==
    LET entry == Unwrap(s.current_entry)
        done == IF entry.id = ""
                THEN [entry EXCEPT !.id =
                        IF entry.link # "" THEN entry.link
                        ELSE IndexId(s.feed.feed_url, Len(s.feed.entries))]
                ELSE entry
    IN  [s EXCEPT !.feed.entries = <<done>> \o @, !.current_entry = None]

\* end of </item>: take the entry, synthesize its id, push it
rss2_finish_item(s) ==
    LET entry == Unwrap(s.current_entry)
        done == IF entry.id = ""
                THEN [entry EXCEPT !.id =
                        IF entry.link # "" THEN entry.link
                        ELSE IndexId(s.feed.feed_url, Len(s.feed.entries))]
                ELSE entry
    IN  [s EXCEPT !.feed.entries = Append(@, done), !.current_entry = None]

\* <enclosure url=".." type="image/..">: the entry's image
rss2_enclosure(s, e) ==
    LET url == AttrValue(e.attrs, "url", "")
        is_image == \E k \in 1..Len(e.attrs) :
                       /\ full_name(e.attrs[k][1]) = "type"
                       \* val.starts_with("image/")
                       /\ e.attrs[k][2] \in {"image/", "image/png"}
    IN  IF IsSome(s.current_entry) /\ is_image /\ url # ""
        THEN [s EXCEPT !.current_entry[1].image_url = Some(url)]
        ELSE s

rss2_start(s, e) ==
    LET local == local_name(e.name)
        s1 == CASE local = "channel" -> [s EXCEPT !.in_channel = TRUE]
                [] local = "item" /\ s.in_channel ->
                     [s EXCEPT !.in_item = TRUE,
                               !.current_entry = Some(NewFeedEntry(""))]
                [] local = "enclosure" /\ s.in_item -> rss2_enclosure(s, e)
                [] OTHER -> s
    IN  [s1 EXCEPT !.current_tag = local, !.current_ns_tag = e.name]

\* an end of item that leaves in_item set
rss2_end_keeping_in_item(s, e) ==
    LET local == local_name(e.name)
        s1 == CASE local = "channel" -> [s EXCEPT !.in_channel = FALSE]
                [] local = "item" /\ s.in_item ->
                     IF IsSome(s.current_entry) THEN rss2_finish_item(s) ELSE s
                [] OTHER -> s
    IN  [s1 EXCEPT !.current_tag = "", !.current_ns_tag = NoName]

rss2_end(s, e) ==
    LET local == local_name(e.name)
        s1 == CASE local = "channel" -> [s EXCEPT !.in_channel = FALSE]
                [] local = "item" /\ s.in_item ->
                     [(IF IsSome(s.current_entry) THEN rss2_finish_item(s) ELSE s)
                        EXCEPT !.in_item = FALSE]
                [] OTHER -> s
    IN  [s1 EXCEPT !.current_tag = "", !.current_ns_tag = NoName]

\* a channel date that every later one replaces
rss2_channel_date_overwriting(s, text) ==
    [s EXCEPT !.feed.last_updated = parse_date(AsDate(text))]

\* channel-level lastBuildDate | pubDate: only while last_updated is None
rss2_channel_date(s, text) ==
    IF ~IsSome(s.feed.last_updated)
    THEN [s EXCEPT !.feed.last_updated = parse_date(AsDate(text))]
    ELSE s

rss2_apply_text(s, text) ==
    LET tag == s.current_tag
        ns_tag == s.current_ns_tag
    IN
    IF s.in_item
    THEN IF IsSome(s.current_entry)
         THEN CASE tag = "title" -> [s EXCEPT !.current_entry[1].title = text]
                [] tag = "link" -> [s EXCEPT !.current_entry[1].link = text]
                [] tag = "guid" -> [s EXCEPT !.current_entry[1].id = text]
                [] tag = "description" ->
                     [s EXCEPT !.current_entry[1].summary = Some(text)]
                [] tag = "encoded" /\ ns_contains(ns_tag, "content") ->
                     [s EXCEPT !.current_entry[1].content = Some(text)]
                [] tag = "creator" /\ ns_contains(ns_tag, "dc") ->
                     [s EXCEPT !.current_entry[1].author = Some(text)]
                [] tag = "author" -> [s EXCEPT !.current_entry[1].author = Some(text)]
                [] tag = "pubDate" ->
                     [s EXCEPT !.current_entry[1].published = parse_date(AsDate(text))]
                [] tag = "category" ->
                     [s EXCEPT !.current_entry[1].categories = Append(@, text)]
                [] OTHER -> s
         ELSE s
    ELSE CASE tag = "title" -> [s EXCEPT !.feed.title = text]
           [] tag = "link" -> [s EXCEPT !.feed.link = text]
           [] tag = "description" -> [s EXCEPT !.feed.description = Some(text)]
           [] tag = "language" -> [s EXCEPT !.feed.language = Some(text)]
           [] tag \in {"lastBuildDate", "pubDate"} -> rss2_channel_date(s, text)
           [] OTHER -> s

\* after the loop: the only mandatory field
rss2_finish(s) ==
    [s EXCEPT !.result = IF s.feed.title = "" THEN "MissingField" ELSE "Ok"]

\* a loop that leaves on a reader error as it does on end-of-input
rss2_step_err_as_eof(s, e) ==
    CASE e.kind = "Start" -> rss2_start(s, e)
      [] e.kind = "End" -> rss2_end(s, e)
      [] e.kind \in {"Text", "CData"} ->
           IF e.text # "" THEN rss2_apply_text(s, e.text) ELSE s
      [] e.kind \in {"Eof", "Err"} -> rss2_finish(s)
      [] OTHER -> s

\* one iteration of rss2::parse's loop
rss2_step(s, e) ==
    CASE e.kind = "Start" -> rss2_start(s, e)
      [] e.kind = "End" -> rss2_end(s, e)
      [] e.kind \in {"Text", "CData"} ->
           IF e.text # "" THEN rss2_apply_text(s, e.text) ELSE s
      [] e.kind = "Eof" -> rss2_finish(s)
      [] e.kind = "Err" -> [s EXCEPT !.result = "Xml"]
      [] OTHER -> s


\* ---- RSS 1.0 / RDF (src-tauri/src/feed/rss1.rs) ----

rss1_finish_item(s) ==
    LET entry == Unwrap(s.current_entry)
        done == IF entry.id = ""
                THEN [entry EXCEPT !.id =
                        IF entry.link # "" THEN entry.link
                        ELSE IndexId(s.feed.feed_url, Len(s.feed.entries))]
                ELSE entry
    IN  [s EXCEPT !.feed.entries = Append(@, done), !.current_entry = None]

\* an item start that leaves in_channel as it is
rss1_start_keeping_channel(s, e) ==
    LET local == local_name(e.name)
        about == AttrValueLocal(e.attrs, "about", "")
        s1 == CASE local = "channel" -> [s EXCEPT !.in_channel = TRUE]
                [] local = "item" ->
                     [s EXCEPT !.in_item = TRUE,
                               !.current_entry = Some(NewFeedEntry(about))]
                [] OTHER -> s
    IN  [s1 EXCEPT !.current_tag = local, !.current_ns_tag = e.name]

rss1_start(s, e) ==
    LET local == local_name(e.name)
        about == AttrValueLocal(e.attrs, "about", "")
        s1 == CASE local = "channel" -> [s EXCEPT !.in_channel = TRUE]
                [] local = "item" ->
                     [s EXCEPT !.in_item = TRUE, !.in_channel = FALSE,
                               !.current_entry = Some(NewFeedEntry(about))]
                [] OTHER -> s
    IN  [s1 EXCEPT !.current_tag = local, !.current_ns_tag = e.name]

rss1_end(s, e) ==
    LET local == local_name(e.name)
        s1 == CASE local = "channel" -> [s EXCEPT !.in_channel = FALSE]
                [] local = "item" /\ s.in_item ->
                     [(IF IsSome(s.current_entry) THEN rss1_finish_item(s) ELSE s)
                        EXCEPT !.in_item = FALSE]
                [] OTHER -> s
    IN  [s1 EXCEPT !.current_tag = "", !.current_ns_tag = NoName]

rss1_apply_text(s, text) ==
    LET tag == s.current_tag
        ns_tag == s.current_ns_tag
    IN
    IF s.in_item
    THEN IF IsSome(s.current_entry)
         THEN CASE tag = "title" -> [s EXCEPT !.current_entry[1].title = text]
                [] tag = "link" -> [s EXCEPT !.current_entry[1].link = text]
                [] tag = "description" ->
                     [s EXCEPT !.current_entry[1].summary = Some(text)]
                [] tag = "encoded" /\ ns_contains(ns_tag, "content") ->
                     [s EXCEPT !.current_entry[1].content = Some(text)]
                [] tag = "creator" /\ ns_contains(ns_tag, "dc") ->
                     [s EXCEPT !.current_entry[1].author = Some(text)]
                [] tag = "date" /\ ns_contains(ns_tag, "dc") ->
                     [s EXCEPT !.current_entry[1].published = parse_date(AsDate(text))]
                [] tag = "subject" /\ ns_contains(ns_tag, "dc") ->
                     [s EXCEPT !.current_entry[1].categories = Append(@, text)]
                [] OTHER -> s
         ELSE s
    ELSE IF s.in_channel
    THEN CASE tag = "title" -> [s EXCEPT !.feed.title = text]
           [] tag = "link" -> [s EXCEPT !.feed.link = text]
           [] tag = "description" -> [s EXCEPT !.feed.description = Some(text)]
           [] tag = "language" /\ ns_contains(ns_tag, "dc") ->
                [s EXCEPT !.feed.language = Some(text)]
           [] tag = "date" /\ ns_contains(ns_tag, "dc") ->
                [s EXCEPT !.feed.last_updated = parse_date(AsDate(text))]
           [] OTHER -> s
    ELSE s

rss1_finish(s) ==
    [s EXCEPT !.result = IF s.feed.title = "" THEN "MissingField" ELSE "Ok"]

\* one iteration of rss1::parse's loop
rss1_step(s, e) ==
    CASE e.kind = "Start" -> rss1_start(s, e)
      [] e.kind = "End" -> rss1_end(s, e)
      [] e.kind \in {"Text", "CData"} ->
           IF e.text # "" THEN rss1_apply_text(s, e.text) ELSE s
      [] e.kind = "Eof" -> rss1_finish(s)
      [] e.kind = "Err" -> [s EXCEPT !.result = "Xml"]
      [] OTHER -> s

\* ---- Atom 1.0 (crates/boke-core/src/feed/atom.rs) ----

\* an id synthesized from the position whatever the link
atom_finish_entry_by_position(s) ==
    LET entry == Unwrap(s.current_entry)
        done == IF entry.id = ""
                THEN [entry EXCEPT !.id = IndexId(s.feed.feed_url, Len(s.feed.entries))]
                ELSE entry
    IN  [s EXCEPT !.feed.entries = Append(@, done), !.current_entry = None]

\* end of </entry>: take the entry, synthesize its id, push it
atom_finish_entry(s) ==
    LET entry == Unwrap(s.current_entry)
        done == IF entry.id = ""
                THEN [entry EXCEPT !.id =
                        IF entry.link # "" THEN entry.link
                        ELSE IndexId(s.feed.feed_url, Len(s.feed.entries))]
                ELSE entry
    IN  [s EXCEPT !.feed.entries = Append(@, done), !.current_entry = None]

\* a link extraction in which every eligible link overwrites
extract_link_overwriting(s, e) ==
    LET href == AttrValue(e.attrs, "href", "")
        rel == AttrValue(e.attrs, "rel", "alternate")
    IN  IF href # "" /\ (rel = "alternate" \/ rel = "")
        THEN IF s.in_item
             THEN IF IsSome(s.current_entry)
                  THEN [s EXCEPT !.current_entry[1].link = href]
                  ELSE s
             ELSE [s EXCEPT !.feed.link = href]
        ELSE s

\* a link extraction that gives an entry's first link to the feed as well
extract_link_feed_too(s, e) ==
    LET href == AttrValue(e.attrs, "href", "")
        rel == AttrValue(e.attrs, "rel", "alternate")
        s1 == IF s.in_item /\ IsSome(s.current_entry) /\ Unwrap(s.current_entry).link = ""
              THEN [s EXCEPT !.current_entry[1].link = href]
              ELSE s
    IN  IF href # "" /\ (rel = "alternate" \/ rel = "")
        THEN IF s1.feed.link = "" THEN [s1 EXCEPT !.feed.link = href] ELSE s1
        ELSE s

extract_link(s, e) ==
    LET href == AttrValue(e.attrs, "href", "")
        rel == AttrValue(e.attrs, "rel", "alternate")
    IN  IF href # "" /\ (rel = "alternate" \/ rel = "")
        THEN IF s.in_item
             THEN IF IsSome(s.current_entry) /\ Unwrap(s.current_entry).link = ""
                  THEN [s EXCEPT !.current_entry[1].link = href]
                  ELSE s
             ELSE IF s.feed.link = "" THEN [s EXCEPT !.feed.link = href] ELSE s
        ELSE s

\* every term attribute with a non-empty value is pushed, in attribute order
RECURSIVE TermValues(_)
TermValues(attrs) ==
    IF attrs = <<>> THEN <<>>
    ELSE (IF full_name(attrs[1][1]) = "term" /\ attrs[1][2] # ""
          THEN <<attrs[1][2]>> ELSE <<>>)
         \o TermValues(Tail(attrs))

\* a category list that takes each term once
atom_category_dedup(s, e) ==
    IF s.in_item /\ IsSome(s.current_entry)
    THEN LET cats == Unwrap(s.current_entry).categories
             fresh == SelectSeq(TermValues(e.attrs),
                                LAMBDA t : \A i \in 1..Len(cats) : cats[i] # t)
         IN  [s EXCEPT !.current_entry[1].categories = cats \o fresh]
    ELSE s

atom_category(s, e) ==
    IF s.in_item /\ IsSome(s.current_entry)
    THEN [s EXCEPT !.current_entry[1].categories = @ \o TermValues(e.attrs)]
    ELSE s

\* in_item is the parser's in_entry flag
atom_start(s, e) ==
    LET local == local_name(e.name)
        s1 == CASE local = "entry" /\ ~s.in_item ->
                     [s EXCEPT !.in_item = TRUE,
                               !.current_entry = Some(NewFeedEntry(""))]
                [] local = "author" -> [s EXCEPT !.in_author = TRUE]
                [] local = "link" -> extract_link(s, e)
                [] local = "category" -> atom_category(s, e)
                [] OTHER -> s
    IN  [s1 EXCEPT !.current_tag = local]

atom_empty(s, e) ==
    LET local == local_name(e.name)
    IN  CASE local = "link" -> extract_link(s, e)
          [] local = "category" -> atom_category(s, e)
          [] OTHER -> s

\* an end tag that leaves in_author as it is
atom_end_keeping_author(s, e) ==
    LET local == local_name(e.name)
        s1 == CASE local = "entry" /\ s.in_item ->
                     [(IF IsSome(s.current_entry) THEN atom_finish_entry(s) ELSE s)
                        EXCEPT !.in_item = FALSE]
                [] OTHER -> s
    IN  [s1 EXCEPT !.current_tag = ""]

\* an end tag that leaves current_tag as it is
atom_end_keeping_tag(s, e) ==
    LET local == local_name(e.name)
    IN  CASE local = "entry" /\ s.in_item ->
               [(IF IsSome(s.current_entry) THEN atom_finish_entry(s) ELSE s)
                  EXCEPT !.in_item = FALSE]
          [] local = "author" -> [s EXCEPT !.in_author = FALSE]
          [] OTHER -> s

atom_end(s, e) ==
    LET local == local_name(e.name)
        s1 == CASE local = "entry" /\ s.in_item ->
                     [(IF IsSome(s.current_entry) THEN atom_finish_entry(s) ELSE s)
                        EXCEPT !.in_item = FALSE]
                [] local = "author" -> [s EXCEPT !.in_author = FALSE]
                [] OTHER -> s
    IN  [s1 EXCEPT !.current_tag = ""]

atom_apply_text(s, text) ==
    LET tag == s.current_tag IN
    IF s.in_item
    THEN IF IsSome(s.current_entry)
         THEN IF s.in_author /\ tag = "name"
              THEN [s EXCEPT !.current_entry[1].author = Some(text)]
              ELSE CASE tag = "title" -> [s EXCEPT !.current_entry[1].title = text]
                     [] tag = "id" -> [s EXCEPT !.current_entry[1].id = text]
                     [] tag = "content" ->
                          [s EXCEPT !.current_entry[1].content = Some(text)]
                     [] tag = "summary" ->
                          [s EXCEPT !.current_entry[1].summary = Some(text)]
                     [] tag = "published" ->
                          [s EXCEPT !.current_entry[1].published =
                                       parse_date(AsDate(text))]
                     [] tag = "updated" ->
                          [s EXCEPT !.current_entry[1].updated = parse_date(AsDate(text))]
                     [] OTHER -> s
         ELSE s
    ELSE CASE tag = "title" -> [s EXCEPT !.feed.title = text]
           [] tag = "subtitle" -> [s EXCEPT !.feed.description = Some(text)]
           [] tag = "updated" -> [s EXCEPT !.feed.last_updated = parse_date(AsDate(text))]
           [] OTHER -> s

\* a return that also insists on an entry
atom_finish_requiring_entries(s) ==
    [s EXCEPT !.result = IF s.feed.title = "" \/ s.feed.entries = <<>>
                         THEN "MissingField" ELSE "Ok"]

\* after the loop: the only mandatory field
atom_finish(s) ==
    [s EXCEPT !.result = IF s.feed.title = "" THEN "MissingField" ELSE "Ok"]

\* a loop that hands empty character data to apply_text as well
atom_step_applying_empty(s, e) ==
    CASE e.kind = "Start" -> atom_start(s, e)
      [] e.kind = "Empty" -> atom_empty(s, e)
      [] e.kind = "End" -> atom_end(s, e)
      [] e.kind \in {"Text", "CData"} -> atom_apply_text(s, e.text)
      [] e.kind = "Eof" -> atom_finish(s)
      [] e.kind = "Err" -> [s EXCEPT !.result = "Xml"]
      [] OTHER -> s

\* one iteration of atom::parse's loop
atom_step(s, e) ==
    CASE e.kind = "Start" -> atom_start(s, e)
      [] e.kind = "Empty" -> atom_empty(s, e)
      [] e.kind = "End" -> atom_end(s, e)
      [] e.kind \in {"Text", "CData"} ->
           IF e.text # "" THEN atom_apply_text(s, e.text) ELSE s
      [] e.kind = "Eof" -> atom_finish(s)
      [] e.kind = "Err" -> [s EXCEPT !.result = "Xml"]
      [] OTHER -> s

-----------------------------------------------------------------------------
(* Format detection and the top-level parse *)

\* a detection by the qualified name of the first element
RECURSIVE detect_format_qualified(_)
detect_format_qualified(evs) ==
    IF evs = <<>> THEN None
    ELSE LET e == evs[1] IN
         CASE e.kind \in {"Start", "Empty"} ->
                (CASE full_name(e.name) = "rss" -> Some("Rss2")
                   [] full_name(e.name) = "RDF" -> Some("Rss1")
                   [] full_name(e.name) = "feed" -> Some("Atom")
                   [] OTHER -> None)
           [] e.kind \in {"Eof", "Err"} -> None
           [] OTHER -> detect_format_qualified(Tail(evs))

\* a detection that looks on for the first element it knows
RECURSIVE detect_format_searching(_)
detect_format_searching(evs) ==
    IF evs = <<>> THEN None
    ELSE LET e == evs[1] IN
         CASE e.kind \in {"Start", "Empty"} /\ local_name(e.name) = "rss" -> Some("Rss2")
           [] e.kind \in {"Start", "Empty"} /\ local_name(e.name) = "RDF" -> Some("Rss1")
           [] e.kind \in {"Start", "Empty"} /\ local_name(e.name) = "feed" -> Some("Atom")
           [] e.kind \in {"Eof", "Err"} -> None
           [] OTHER -> detect_format_searching(Tail(evs))

\* detect_format: the first Start or Empty element decides
RECURSIVE detect_format(_)
detect_format(evs) ==
    IF evs = <<>> THEN None
    ELSE LET e == evs[1] IN
         CASE e.kind \in {"Start", "Empty"} ->
                (CASE local_name(e.name) = "rss" -> Some("Rss2")
                   [] local_name(e.name) = "RDF" -> Some("Rss1")
                   [] local_name(e.name) = "feed" -> Some("Atom")
                   [] OTHER -> None)
           [] e.kind \in {"Eof", "Err"} -> None
           [] OTHER -> detect_format(Tail(evs))

\* a dispatch that hands every detected format to the RSS 2.0 parser
dialect_step_always_rss2(format, s, e) == rss2_step(s, e)

\* the dialect parser's loop body for a detected format
dialect_step(format, s, e) ==
    CASE format = "Rss2" -> rss2_step(s, e)
      [] format = "Rss1" -> rss1_step(s, e)
      [] format = "Atom" -> atom_step(s, e)

\* a dialect parser run to its return over a whole event stream
RECURSIVE run_parser(_, _, _)
run_parser(format, s, evs) ==
    IF s.result # "running" \/ evs = <<>> THEN s
    ELSE run_parser(format, dialect_step(format, s, evs[1]), Tail(evs))

\* feed::parse / FeedParser::parse: [result, feed]; feed counts only under "Ok"
parse(evs, feed_url) ==
    LET format == detect_format(evs) IN
    IF ~IsSome(format)
    THEN [result |-> "UnknownFormat", feed |-> NewFeedValue(feed_url)]
    ELSE LET s == run_parser(Unwrap(format), ParserInit(feed_url), evs)
         IN  [result |-> s.result,
              feed |-> IF s.result = "Ok" THEN s.feed ELSE NewFeedValue(feed_url)]


-----------------------------------------------------------------------------
(* Feed sources: the documents a publisher serves, and their event streams *)

FeedUrl == "u1"

\* what a publisher writes for one item: an explicit guid / id / rdf:about
\* ("" = none) and a link ("" = none)
Items == [guid : {"", "g1"}, link : {"", "l1"}]

ItemSeqs == UNION {[1..k -> Items] : k \in 0..MaxItems}

\* delivery: character data as text or as CDATA, or a stream that breaks off
\* with malformed XML after the last item
Docs ==
    [dialect : {"Rss2", "Rss1", "Atom"}, title : {"", "T"}, items : ItemSeqs,
     delivery : {"text", "cdata", "malformed"}]
    \cup [dialect : {"Html"}, title : {"T"}, items : {<<>>}, delivery : {"text"}]

N(local) == Name("", local)

Chars(d, t) == IF d.delivery = "cdata" THEN CData(t) ELSE Text(t)

\* <tag>text</tag>, nothing when the publisher gives no value
Element(d, tag, t) ==
    IF t = "" THEN <<>> ELSE <<Start(tag, <<>>), Chars(d, t), End(tag)>>

Rss2Item(d, it) ==
    <<Start(N("item"), <<>>)>> \o Element(d, N("guid"), it.guid)
        \o Element(d, N("link"), it.link) \o <<End(N("item"))>>

Rss1Item(d, it) ==
    <<Start(N("item"),
            IF it.guid = "" THEN <<>> ELSE <<<<Name("rdf", "about"), it.guid>>>>)>>
        \o Element(d, N("link"), it.link) \o <<End(N("item"))>>

AtomEntry(d, it) ==
    <<Start(N("entry"), <<>>)>> \o Element(d, N("id"), it.guid)
        \o (IF it.link = "" THEN <<>>
            ELSE <<Empty(N("link"), <<<<N("href"), it.link>>, <<N("rel"), "alternate">>>>)>>)
        \o <<End(N("entry"))>>

RECURSIVE RenderItems(_, _)
RenderItems(d, its) ==
    IF its = <<>> THEN <<>>
    ELSE (CASE d.dialect = "Rss2" -> Rss2Item(d, its[1])
            [] d.dialect = "Rss1" -> Rss1Item(d, its[1])
            [] d.dialect = "Atom" -> AtomEntry(d, its[1]))
         \o RenderItems(d, Tail(its))

Closing(d, tail) == IF d.delivery = "malformed" THEN <<XmlErr>> ELSE tail \o <<Eof>>

\* the event stream quick_xml delivers for the document
Render(d) ==
    CASE d.dialect = "Rss2" ->
           <<Decl, Start(N("rss"), <<>>), Start(N("channel"), <<>>)>>
             \o Element(d, N("title"), d.title) \o RenderItems(d, d.items)
             \o Closing(d, <<End(N("channel")), End(N("rss"))>>)
      [] d.dialect = "Rss1" ->
           <<Decl, Start(Name("rdf", "RDF"), <<>>), Start(N("channel"), <<>>)>>
             \o Element(d, N("title"), d.title) \o <<End(N("channel"))>>
             \o RenderItems(d, d.items)
             \o Closing(d, <<End(Name("rdf", "RDF"))>>)
      [] d.dialect = "Atom" ->
           <<Decl, Start(N("feed"), <<>>)>>
             \o Element(d, N("title"), d.title) \o RenderItems(d, d.items)
             \o Closing(d, <<End(N("feed"))>>)
      [] OTHER ->
           <<Start(N("html"), <<>>), Start(N("title"), <<>>), Text(d.title),
             End(N("title")), End(N("html")), Eof>>

\* a publisher's change to the item list: one item inserted before position
\* pos, or the item at pos removed
Edits(d) ==
    {[op |-> "none", pos |-> 0, item |-> [guid |-> "", link |-> ""]]}
    \cup {[op |-> "remove", pos |-> i, item |-> d.items[i]] : i \in 1..Len(d.items)}
    \cup (IF Len(d.items) < MaxItems
          THEN [op : {"insert"}, pos : 1..(Len(d.items) + 1), item : Items]
          ELSE {})

NoEdit == [op |-> "none", pos |-> 0, item |-> [guid |-> "", link |-> ""]]

ApplyEdit(its, ed) ==
    CASE ed.op = "remove" ->
           SubSeq(its, 1, ed.pos - 1) \o SubSeq(its, ed.pos + 1, Len(its))
      [] ed.op = "insert" ->
           SubSeq(its, 1, ed.pos - 1) \o <<ed.item>> \o SubSeq(its, ed.pos, Len(its))
      [] OTHER -> its

\* where item i of the old list stands in the edited list (0: it was removed)
NewPos(ed, i) ==
    CASE ed.op = "remove" -> IF i = ed.pos THEN 0 ELSE IF i > ed.pos THEN i - 1 ELSE i
      [] ed.op = "insert" -> IF i >= ed.pos THEN i + 1 ELSE i
      [] OTHER -> i

-----------------------------------------------------------------------------
(* ParserSpec: one document fetched and parsed, changed by its publisher,   *)
(* fetched and parsed again.  One action per arm of the parse loop.         *)

CoordIdle ==
    /\ impl = "core"
    /\ feeds = {}
    /\ articles = {}
    /\ ops = <<>>

ParserSpecInit ==
    /\ doc \in Docs
    /\ events = Render(doc)
    /\ fmt = None
    /\ p = ParserInit(FeedUrl)
    /\ ppc = "detect"
    /\ edit = NoEdit
    /\ parsed = <<>>
    /\ CoordIdle

Returned(result, feed) == [doc |-> doc, result |-> result, feed |-> feed]

\* feed::parse up to the dispatch on the detected format
Detect ==
    /\ ppc = "detect"
    /\ fmt' = detect_format(events)
    /\ IF IsSome(fmt')
       THEN /\ ppc' = "parse"
            /\ parsed' = parsed
       ELSE /\ ppc' = "done"
            /\ parsed' = Append(parsed, Returned("UnknownFormat", NewFeedValue(FeedUrl)))
    /\ UNCHANGED <<doc, events, p, edit>>
    /\ UNCHANGED cvars

\* the reader's next event is of this kind
NextEvent(kind) ==
    /\ ppc = "parse"
    /\ events # <<>>
    /\ Head(events).kind = kind

\* one loop iteration on an event that does not end the parse
Consume ==
    /\ p' = dialect_step(Unwrap(fmt), p, Head(events))
    /\ events' = Tail(events)
    /\ UNCHANGED <<doc, fmt, ppc, edit, parsed>>
    /\ UNCHANGED cvars

\* the loop iteration that ends the parse, and parse's return
Finish ==
    /\ p' = dialect_step(Unwrap(fmt), p, Head(events))
    /\ events' = Tail(events)
    /\ ppc' = "done"
    /\ parsed' = Append(parsed, Returned(p'.result,
                    IF p'.result = "Ok" THEN p'.feed ELSE NewFeedValue(FeedUrl)))
    /\ UNCHANGED <<doc, fmt, edit>>
    /\ UNCHANGED cvars

OnStart ==
    /\ NextEvent("Start")
    /\ Consume

OnEmpty ==
    /\ NextEvent("Empty")
    /\ Consume

OnEnd ==
    /\ NextEvent("End")
    /\ Consume

OnText ==
    /\ NextEvent("Text")
    /\ Consume

OnCData ==
    /\ NextEvent("CData")
    /\ Consume

\* declarations, comments, processing instructions
OnOther ==
    /\ ppc = "parse"
    /\ events # <<>>
    /\ Head(events).kind \in OtherKinds
    /\ Consume

OnEof ==
    /\ NextEvent("Eof")
    /\ Finish

OnErr ==
    /\ NextEvent("Err")
    /\ Finish

\* the publisher changes the document; the next fetch parses the new one
Republish ==
    /\ ppc = "done"
    /\ Len(parsed) = 1
    /\ \E ed \in Edits(doc) :
         /\ edit' = ed
         /\ doc' = [doc EXCEPT !.items = ApplyEdit(@, ed)]
    /\ events' = Render(doc')
    /\ fmt' = None
    /\ p' = ParserInit(FeedUrl)
    /\ ppc' = "detect"
    /\ UNCHANGED parsed
    /\ UNCHANGED cvars

ParserNext ==
    \/ Detect
    \/ OnStart
    \/ OnEmpty
    \/ OnEnd
    \/ OnText
    \/ OnCData
    \/ OnOther
    \/ OnEof
    \/ OnErr
    \/ Republish

ParserSpec == ParserSpecInit /\ [][ParserNext]_vars


-----------------------------------------------------------------------------
(* DateSpec: parse_date on one date string, one action per branch of its    *)
(* code.                                                                    *)

\* the date strings: a blank one matches nothing and holds no zone name; a
\* string without zone name is its own replacement, which RFC 2822 parses as
\* it parses the string; up to two attempts match, with timestamps of their
\* own ("01/02/2024 10:00:00" is a date by both of the last two patterns)
DateDocInputs ==
    {d \in {DateInput(sp, bl, nm, a, ta, b, tb) :
               sp \in BOOLEAN, bl \in BOOLEAN, nm \in BOOLEAN,
               a \in 1..Len(Attempts), ta \in 0..MaxStamp,
               b \in 1..Len(Attempts), tb \in 0..MaxStamp} :
       /\ d.blank => ~d.named /\ \A i \in 1..Len(Attempts) : d.ok[i] = 0
       /\ ~d.named => d.ok[3] = d.ok[2]}

DateSpecInit ==
    /\ doc \in [family : {"date"}, input : DateDocInputs]
    /\ events = <<>>
    /\ fmt = None
    /\ p = DateInit
    /\ ppc = "date"
    /\ edit = NoEdit
    /\ parsed = <<>>
    /\ CoordIdle

DateStep ==
    /\ ppc = "date"
    /\ ~p.returned
    /\ p' = parse_date_step(doc.input, p)
    /\ UNCHANGED <<doc, events, fmt, ppc, edit, parsed>>
    /\ UNCHANGED cvars

\* input.trim() and the empty check
DateTrim ==
    /\ p.i = 0
    /\ DateStep

\* one `if let Ok(..) = ..parse..(input)`
DateAttempt ==
    /\ p.i \in 1..Len(Attempts)
    /\ ~(p.i = 3 /\ ~doc.input.named)
    /\ DateStep

\* `normalized != input` is false
DateUnchanged ==
    /\ p.i = 3
    /\ ~doc.input.named
    /\ DateStep

\* the final None
DateNone ==
    /\ p.i > Len(Attempts)
    /\ DateStep

DateNext ==
    \/ DateTrim
    \/ DateAttempt
    \/ DateUnchanged
    \/ DateNone

DateSpec == DateSpecInit /\ [][DateNext]_vars

-----------------------------------------------------------------------------
(* Discovery (src-tauri/src/feed/discovery.rs)                              *)

COMMON_FEED_PATHS ==
    <<"/feed", "/rss", "/rss.xml", "/feed.xml", "/atom.xml", "/index.xml",
      "/blog/feed", "/blog/rss", "/?feed=rss2">>

\* str::contains on the content types and link types of the model: the
\* needles xml, rss, atom, feed that occur in the text as it is written
Needles(text) ==
    CASE text = "application/rss+xml" -> {"rss", "xml"}
      [] text = "application/atom+xml" -> {"atom", "xml"}
      [] text = "application/feed+json" -> {"feed"}
      [] text = "text/xml" -> {"xml"}
      [] OTHER -> {}

contains(text, needle) == needle \in Needles(text)

\* "TEXT/XML" is the one header of the model written in upper case, "U1" the
\* one feed URL
to_lowercase(text) ==
    CASE text = "TEXT/XML" -> "text/xml"
      [] text = "U1" -> "u1"
      [] OTHER -> text

is_feed_content_type(ct) ==
    contains(ct, "xml") \/ contains(ct, "rss") \/ contains(ct, "atom") \/ contains(ct, "feed")

\* a body is its leading white space, the text that follows it (head) and
\* the <link> elements the HTML parser finds in it; str::starts_with on the
\* heads of the model
starts_with(body, prefix) ==
    /\ body.lead = ""
    /\ \/ body.head = prefix
       \/ body.head = "<feedback" /\ prefix = "<feed"

trim_start(body) == [body EXCEPT !.lead = ""]

\* a test on the body as it arrives, without the trim
looks_like_feed_untrimmed(body) ==
    \/ starts_with(body, "<?xml")
    \/ starts_with(body, "<rss")
    \/ starts_with(body, "<feed")
    \/ starts_with(body, "<rdf:RDF")

looks_like_feed(body) ==
    LET trimmed == trim_start(body)
    IN  \/ starts_with(trimmed, "<?xml")
        \/ starts_with(trimmed, "<rss")
        \/ starts_with(trimmed, "<feed")
        \/ starts_with(trimmed, "<rdf:RDF")

\* a parsed URL is its origin, the directory of its path and the rest;
\* Url::join on the hrefs of the model: an absolute URL stands for itself, a
\* path from the root replaces the path, a relative one the file; the href
\* that cannot be joined is returned as written
resolve_url(base, href) ==
    CASE href = "http://[" -> href
      [] href = "http://o/atom" -> href
      [] href \in {"/feed.xml"} \cup {COMMON_FEED_PATHS[i] : i \in 1..Len(COMMON_FEED_PATHS)} ->
           base.origin \o href
      [] OTHER -> base.origin \o base.dir \o href

\* a scan that drops a link it has found before
RECURSIVE find_links_dedup(_, _)
find_links_dedup(base, links) ==
    IF links = <<>> THEN <<>>
    ELSE LET n == Len(links)
             link == links[n]
             before == find_links_dedup(base, SubSeq(links, 1, n - 1))
         IN  IF /\ link.rel = "alternate"
                /\ \/ contains(link.type, "rss")
                   \/ contains(link.type, "atom")
                   \/ contains(link.type, "feed")
                /\ link.href # ""
                /\ \A k \in 1..Len(before) : before[k] # resolve_url(base, link.href)
             THEN Append(before, resolve_url(base, link.href))
             ELSE before

\* the loop over document.select(link[rel="alternate"])
RECURSIVE find_links(_, _)
find_links(base, links) ==
    IF links = <<>> THEN <<>>
    ELSE LET n == Len(links)
             link == links[n]
             before == find_links(base, SubSeq(links, 1, n - 1))
         IN  IF /\ link.rel = "alternate"
                /\ \/ contains(link.type, "rss")
                   \/ contains(link.type, "atom")
                   \/ contains(link.type, "feed")
                /\ link.href # ""
             THEN Append(before, resolve_url(base, link.href))
             ELSE before

\* a probe that takes any response with a feed's content type
probe_matches_any_status(resp) ==
    /\ resp.sent
    /\ is_feed_content_type(to_lowercase(resp.ct))

\* `if let Ok(resp)`, `resp.status().is_success()`, `is_feed_content_type(&ct)`
probe_matches(resp) ==
    /\ resp.sent
    /\ resp.status \in 200..299
    /\ is_feed_content_type(to_lowercase(resp.ct))

\* an end of discover that returns the feeds it has, none included
no_feed_found_returning_none(st, url) ==
    [st EXCEPT !.pc = "done", !.result = "Ok", !.value = st.feeds]

\* the end of discover: `if feeds.is_empty() { Err(FeedError::Discovery(
\* format!("No feed found at {url}. ..."))) } else { Ok(feeds) }`
no_feed_found(st, url) ==
    IF st.feeds = <<>>
    THEN [st EXCEPT !.pc = "done", !.result = "Discovery",
                    !.error = "No feed found at " \o url
                                \o ". Try providing the direct feed URL."]
    ELSE [st EXCEPT !.pc = "done", !.result = "Ok", !.value = st.feeds]

-----------------------------------------------------------------------------
(* DiscoverSpec: one call of discover on one site, one action per request   *)
(* and per return.                                                          *)

\* <link> elements in a page, at most
MaxLinks == 2

\* the URL given to discover, as written and as Url::parse reads it (a URL
\* that reqwest has fetched is one that Url::parse accepts)
PageUrls ==
    {[text |-> "http://s", origin |-> "http://s", dir |-> "/", file |-> ""],
     [text |-> "http://s/blog/p", origin |-> "http://s", dir |-> "/blog/", file |-> "p"]}

PageLinks ==
    [rel : {"alternate", "stylesheet"},
     type : {"application/rss+xml", "application/atom+xml", "application/feed+json",
             "text/xml", "text/html"},
     href : {"", "/feed.xml", "rss.xml", "http://o/atom", "http://["}]

\* the answer to a HEAD request: not sent (a transport failure), or a status
\* and a content-type header
NoAnswer == [sent |-> FALSE, status |-> 0, ct |-> ""]

Answers ==
    {NoAnswer}
    \cup [sent : {TRUE}, status : {200, 404},
          ct : {"application/rss+xml", "TEXT/XML", "text/html", ""}]

Answering(a, ra, b, rb) ==
    [i \in 1..Len(COMMON_FEED_PATHS) |-> IF i = a THEN ra ELSE IF i = b THEN rb ELSE NoAnswer]

FeedLink == [rel |-> "alternate", type |-> "application/rss+xml", href |-> "/feed.xml"]

\* get: the client cannot be built, the GET fails, the body cannot be read,
\* or the page arrives.  Three families of sites: any first response, on a
\* site that also has a feed link and feeds at every common path; an HTML
\* page with any links; an HTML page without feed link and any two
\* answering paths
DirectSites ==
    [family : {"direct"}, url : PageUrls,
     get : {"no_client", "send_fails", "text_fails", "ok"},
     ct : {"", "text/html", "application/rss+xml", "application/atom+xml",
           "application/feed+json", "TEXT/XML"},
     body : [lead : {"", " "},
             head : {"", "<?xml", "<rss", "<feed", "<feedback", "<rdf:RDF", "<RSS", "<html"},
             links : {<<>>, <<FeedLink>>}],
     probes : {Answering(1, [sent |-> TRUE, status |-> 200, ct |-> "text/xml"],
                         1, [sent |-> TRUE, status |-> 200, ct |-> "text/xml"])}]

LinkSites ==
    [family : {"links"}, url : PageUrls, get : {"ok"}, ct : {"text/html"},
     body : [lead : {""}, head : {"<html"},
             links : UNION {[1..k -> PageLinks] : k \in 0..MaxLinks}],
     probes : {Answering(1, [sent |-> TRUE, status |-> 200, ct |-> "text/xml"],
                         1, [sent |-> TRUE, status |-> 200, ct |-> "text/xml"])}]

ProbeSites ==
    [family : {"probes"}, url : PageUrls, get : {"ok"}, ct : {"text/html"},
     body : [lead : {""}, head : {"<html"},
             links : {<<>>, <<[FeedLink EXCEPT !.rel = "stylesheet"]>>,
                      <<[FeedLink EXCEPT !.href = ""]>>}],
     probes : {Answering(a, ra, b, rb) :
                 a \in 1..Len(COMMON_FEED_PATHS), ra \in Answers,
                 b \in 1..Len(COMMON_FEED_PATHS), rb \in Answers}]

\* the locals of discover: where it stands, the lower-cased content type,
\* the feeds found, the path index of the loop, and its return
DiscoverInit ==
    [pc |-> "get", content_type |-> "", feeds |-> <<>>, i |-> 1, result |-> "",
     value |-> <<>>, error |-> ""]

Request(method, to) == [method |-> method, url |-> to]

DiscoverSpecInit ==
    /\ doc \in DirectSites \cup LinkSites \cup ProbeSites
    /\ events = <<>>
    /\ fmt = None
    /\ p = DiscoverInit
    /\ ppc = "discover"
    /\ edit = NoEdit
    /\ parsed = <<>>
    /\ CoordIdle

DiscoverStep ==
    /\ ppc = "discover"
    /\ UNCHANGED <<doc, fmt, ppc, edit, parsed>>
    /\ UNCHANGED cvars

\* Client::builder()..build() fails: FeedError::Http, nothing requested
DiscoverNoClient ==
    /\ p.pc = "get"
    /\ doc.get = "no_client"
    /\ p' = [p EXCEPT !.pc = "done", !.result = "Http"]
    /\ UNCHANGED events
    /\ DiscoverStep

\* client.get(url).send(), the content-type header, response.text()
DiscoverGet ==
    /\ p.pc = "get"
    /\ doc.get # "no_client"
    /\ events' = Append(events, Request("GET", doc.url.text))
    /\ p' = IF doc.get = "ok"
            THEN [p EXCEPT !.pc = "check", !.content_type = to_lowercase(doc.ct)]
            ELSE [p EXCEPT !.pc = "done", !.result = "Http"]
    /\ DiscoverStep

\* the URL is already a feed
DiscoverDirect ==
    /\ p.pc = "check"
    /\ is_feed_content_type(p.content_type) \/ looks_like_feed(doc.body)
    /\ p' = [p EXCEPT !.pc = "done", !.result = "Ok", !.value = <<doc.url.text>>]
    /\ UNCHANGED events
    /\ DiscoverStep

\* the page is parsed as HTML and its feed links are collected
DiscoverScan ==
    /\ p.pc = "check"
    /\ ~(is_feed_content_type(p.content_type) \/ looks_like_feed(doc.body))
    /\ p' = [p EXCEPT !.pc = "scanned", !.feeds = find_links(doc.url, doc.body.links)]
    /\ UNCHANGED events
    /\ DiscoverStep

\* `if !feeds.is_empty() { return Ok(feeds) }`
DiscoverLinks ==
    /\ p.pc = "scanned"
    /\ p.feeds # <<>>
    /\ p' = [p EXCEPT !.pc = "done", !.result = "Ok", !.value = p.feeds]
    /\ UNCHANGED events
    /\ DiscoverStep

\* one iteration of `for path in COMMON_FEED_PATHS`
DiscoverProbe ==
    /\ p.pc = "scanned"
    /\ p.feeds = <<>>
    /\ p.i <= Len(COMMON_FEED_PATHS)
    /\ LET candidate == resolve_url(doc.url, COMMON_FEED_PATHS[p.i])
       IN  /\ events' = Append(events, Request("HEAD", candidate))
           /\ p' = IF probe_matches(doc.probes[p.i])
                   THEN [p EXCEPT !.pc = "done", !.result = "Ok", !.feeds = <<candidate>>,
                                  !.value = <<candidate>>]
                   ELSE [p EXCEPT !.i = p.i + 1]
    /\ DiscoverStep

\* after the loop: FeedError::Discovery("No feed found at ..")
DiscoverNoFeed ==
    /\ p.pc = "scanned"
    /\ p.feeds = <<>>
    /\ p.i > Len(COMMON_FEED_PATHS)
    /\ p' = no_feed_found(p, doc.url.text)
    /\ UNCHANGED events
    /\ DiscoverStep

DiscoverNext ==
    \/ DiscoverNoClient
    \/ DiscoverGet
    \/ DiscoverDirect
    \/ DiscoverScan
    \/ DiscoverLinks
    \/ DiscoverProbe
    \/ DiscoverNoFeed

DiscoverSpec == DiscoverSpecInit /\ [][DiscoverNext]_vars

-----------------------------------------------------------------------------
(* Properties of the parsers (ParserSpec) *)

\* the id the data model promises item i of a document
ExpectedId(d, i) ==
    IF d.items[i].guid # "" THEN d.items[i].guid
    ELSE IF d.items[i].link # "" THEN d.items[i].link
    ELSE IndexId(FeedUrl, i - 1)

BothParsed ==
    /\ Len(parsed) = 2
    /\ parsed[1].result = "Ok"
    /\ parsed[2].result = "Ok"

\* the items of the first document that the edit left in place
Unchanged == {i \in 1..Len(parsed[1].doc.items) : NewPos(edit, i) # 0}

IdAt(k, i) == parsed[k].feed.entries[i].id

C10_EntryIds ==
    \A k \in 1..Len(parsed) :
        parsed[k].result = "Ok" =>
            /\ Len(parsed[k].feed.entries) = Len(parsed[k].doc.items)
            /\ \A i \in 1..Len(parsed[k].feed.entries) :
                 /\ IdAt(k, i) # ""
                 /\ IdAt(k, i) = ExpectedId(parsed[k].doc, i)

\* a returned feed whose second entry had neither guid nor link and whose
\* first entry took its link
C10_Witness ==
    \E k \in 1..Len(parsed) :
        /\ parsed[k].result = "Ok"
        /\ Len(parsed[k].feed.entries) = 2
        /\ parsed[k].doc.items[1] = [guid |-> "", link |-> "l1"]
        /\ parsed[k].doc.items[2] = [guid |-> "", link |-> ""]
        /\ IdAt(k, 1) = "l1"
        /\ IdAt(k, 2) = "u1-1"

\* a parse that ran over the whole of a document of a known dialect
ReachedEof(k) ==
    /\ parsed[k].doc.dialect \in {"Rss2", "Rss1", "Atom"}
    /\ parsed[k].doc.delivery # "malformed"

\* C11: a parse that reaches end-of-input fails with the missing-required-
\* field(title) error exactly when the feed title is still empty; no other
\* field is mandatory, so a document with a feed title and nothing else
\* parses successfully
C11_TitleOnlyMandatory ==
    \A k \in 1..Len(parsed) :
        ReachedEof(k) =>
            /\ parsed[k].result \in {"Ok", "MissingField"}
            /\ (parsed[k].result = "MissingField") <=> (parsed[k].doc.title = "")
            /\ (parsed[k].doc.title # "" /\ parsed[k].doc.items = <<>>) =>
                  parsed[k].feed = [NewFeedValue(FeedUrl) EXCEPT !.title = parsed[k].doc.title]

\* an Atom document holding a title and nothing else was parsed
C11_Witness ==
    \E k \in 1..Len(parsed) :
        /\ parsed[k].doc.dialect = "Atom"
        /\ parsed[k].doc.title = "T"
        /\ parsed[k].doc.items = <<>>
        /\ parsed[k].doc.delivery = "text"
        /\ parsed[k].result = "Ok"
        /\ parsed[k].feed.title = "T"
        /\ parsed[k].feed.entries = <<>>

-----------------------------------------------------------------------------
(* DocSpec: one event stream, detected and parsed.  The streams come in     *)
(* families, each built to exercise one part of the parsers.                *)

\* events before the first element, at most
MaxPre == 2

\* family "cut": a well-formed document whose stream breaks off with a reader
\* error after its first `at` events
CutBases == {d \in Docs : d.dialect # "Html" /\ d.delivery = "text"}

CutDocs ==
    UNION {[family : {"cut"}, base : {b}, at : 0..(Len(Render(b)) - 1)] : b \in CutBases}

\* family "detect": what stands before the first element, the first element
\* (or the end of input, or a reader error, in its place), and what follows
PreEvents == {Decl, Comment, PI, DocType, Text("x")}

PreSeqs == UNION {[1..k -> PreEvents] : k \in 0..MaxPre}

RootNames ==
    {N("rss"), N("RDF"), N("feed"), Name("rdf", "RDF"), Name("atom", "feed"),
     N("html"), N("RSS"), N("rdf"), Name("rss", "channel")}

Firsts ==
    {Start(n, <<>>) : n \in RootNames} \cup {Empty(n, <<>>) : n \in RootNames}
        \cup {Eof, XmlErr}

\* after the first element: nothing, a reader error, a title, or the root
\* element of another dialect
Rests ==
    {<<Eof>>, <<XmlErr>>,
     <<Start(N("title"), <<>>), Text("T"), End(N("title")), Eof>>,
     <<Start(N("feed"), <<>>), End(N("feed")), Eof>>,
     <<Start(N("rss"), <<>>), XmlErr>>}

DetectDocs == [family : {"detect"}, pre : PreSeqs, first : Firsts, rest : Rests]

\* how often one element is repeated in one scope
MaxOccur == 2

\* the element each dialect reads a scalar text field from, per scope
FieldTags ==
    [dialect : {"Rss2", "Rss1", "Atom"}, scope : {"feed", "entry"}, name : {"title"},
     tag : {N("title")}]
    \cup [dialect : {"Rss2", "Rss1"}, scope : {"feed"}, name : {"description"},
          tag : {N("description")}]
    \cup [dialect : {"Rss2", "Rss1"}, scope : {"entry"}, name : {"summary"},
          tag : {N("description")}]
    \cup [dialect : {"Rss2", "Rss1"}, scope : {"entry"}, name : {"content"},
          tag : {Name("content", "encoded")}]
    \cup [dialect : {"Rss2", "Rss1"}, scope : {"entry"}, name : {"author"},
          tag : {Name("dc", "creator")}]
    \cup {[dialect |-> "Rss2", scope |-> "entry", name |-> "author", tag |-> N("author")],
          [dialect |-> "Rss2", scope |-> "feed", name |-> "language", tag |-> N("language")],
          [dialect |-> "Rss1", scope |-> "feed", name |-> "language",
           tag |-> Name("dc", "language")],
          [dialect |-> "Atom", scope |-> "feed", name |-> "description",
           tag |-> N("subtitle")],
          [dialect |-> "Atom", scope |-> "entry", name |-> "summary", tag |-> N("summary")],
          [dialect |-> "Atom", scope |-> "entry", name |-> "content", tag |-> N("content")],
          [dialect |-> "Atom", scope |-> "entry", name |-> "author", tag |-> N("name")]}

\* the character data of the occurrences of one element, "" for an element
\* without any
ValSeqs == UNION {[1..k -> {"", "a", "b"}] : k \in 1..MaxOccur}

\* a feed in which one scalar text element is repeated in one scope
FieldDocs ==
    [family : {"fields"}, field : FieldTags, delivery : {"text", "cdata"}, vals : ValSeqs]

\* one occurrence <tag>v</tag>: an element without character data yields no
\* text event, an empty CDATA section an event with empty text; Atom's author
\* name stands inside <author>
Occurrence(d, tag, v) ==
    LET el == <<Start(tag, <<>>)>>
                \o (IF v = "" /\ d.delivery = "text" THEN <<>> ELSE <<Chars(d, v)>>)
                \o <<End(tag)>>
    IN  IF tag = N("name")
        THEN <<Start(N("author"), <<>>)>> \o el \o <<End(N("author"))>>
        ELSE el

RECURSIVE Occurrences(_, _, _)
Occurrences(d, tag, vals) ==
    IF vals = <<>> THEN <<>>
    ELSE Occurrence(d, tag, vals[1]) \o Occurrences(d, tag, Tail(vals))

\* a feed of the dialect, titled "T" unless its body is the channel's own
\* titles, with the body at feed level or inside its only entry
Scoped(dialect, scope, titled, body) ==
    LET title == IF titled THEN <<Start(N("title"), <<>>), Text("T"), End(N("title"))>>
                 ELSE <<>>
        entry == IF dialect = "Atom" THEN N("entry") ELSE N("item")
        inner == IF scope = "feed" THEN body
                 ELSE <<Start(entry, <<>>)>> \o body \o <<End(entry)>>
    IN  CASE dialect = "Rss2" ->
               <<Decl, Start(N("rss"), <<>>), Start(N("channel"), <<>>)>> \o title \o inner
                 \o <<End(N("channel")), End(N("rss")), Eof>>
          [] dialect = "Rss1" ->
               <<Decl, Start(Name("rdf", "RDF"), <<>>), Start(N("channel"), <<>>)>> \o title
                 \o (IF scope = "feed" THEN body \o <<End(N("channel"))>>
                     ELSE <<End(N("channel"))>> \o inner)
                 \o <<End(Name("rdf", "RDF")), Eof>>
          [] dialect = "Atom" ->
               <<Decl, Start(N("feed"), <<>>)>> \o title \o inner \o <<End(N("feed")), Eof>>

\* an Atom <link>: its href ("" also for none) and its rel
Links == [href : {"", "h1", "h2"}, rel : {"absent", "", "alternate", "self"}]

\* an Atom feed with links in one scope, all written <link .../> or all
\* written <link ...></link>
LinkDocs ==
    [family : {"links"}, scope : {"feed", "entry"}, form : {"Empty", "Start"},
     links : UNION {[1..k -> Links] : k \in 1..MaxOccur}]

RECURSIVE LinkEvents(_, _)
LinkEvents(form, links) ==
    IF links = <<>> THEN <<>>
    ELSE LET attrs == <<<<N("href"), links[1].href>>>>
                        \o (IF links[1].rel = "absent" THEN <<>>
                            ELSE <<<<N("rel"), links[1].rel>>>>)
         IN  (IF form = "Empty" THEN <<Empty(N("link"), attrs)>>
              ELSE <<Start(N("link"), attrs), End(N("link"))>>)
             \o LinkEvents(form, Tail(links))

\* a feed whose only entry repeats the category element: <category> text in
\* RSS 2.0, <dc:subject> text in RSS 1.0, <category term="..."/> or
\* <category term="..."></category> in Atom
CategoryDocs ==
    [family : {"categories"}, dialect : {"Rss2", "Rss1"}, delivery : {"text", "cdata"},
     vals : ValSeqs]
    \cup [family : {"categories"}, dialect : {"Atom"}, form : {"Empty", "Start"},
          vals : ValSeqs]

RECURSIVE CategoryEvents(_, _)
CategoryEvents(d, vals) ==
    IF vals = <<>> THEN <<>>
    ELSE (CASE d.dialect = "Rss2" -> Occurrence(d, N("category"), vals[1])
            [] d.dialect = "Rss1" -> Occurrence(d, Name("dc", "subject"), vals[1])
            [] d.dialect = "Atom" /\ d.form = "Empty" ->
                 <<Empty(N("category"), <<<<N("term"), vals[1]>>>>)>>
            [] OTHER ->
                 <<Start(N("category"), <<<<N("term"), vals[1]>>>>), End(N("category"))>>)
         \o CategoryEvents(d, Tail(vals))

\* an RSS 2.0 channel with date elements: a date ("d1", "d2") or text that
\* is none ("x")
DateDocs ==
    [family : {"dates"},
     dates : UNION {[1..k -> [tag : {"pubDate", "lastBuildDate"}, val : {"x", "d1", "d2"}]]
                      : k \in 1..MaxOccur}]

RECURSIVE DateEvents(_)
DateEvents(dates) ==
    IF dates = <<>> THEN <<>>
    ELSE <<Start(N(dates[1].tag), <<>>), Text(dates[1].val), End(N(dates[1].tag))>>
           \o DateEvents(Tail(dates))

\* an RSS 2.0 item with enclosures, all written <enclosure .../> or all
\* written <enclosure ...></enclosure>; a type "" stands for no type attribute
EnclosureDocs ==
    [family : {"enclosures"}, form : {"Empty", "Start"},
     encl : UNION {[1..k -> [type : {"", "image/png", "audio/mpeg"}, url : {"", "i1", "i2"}]]
                     : k \in 1..MaxOccur}]

RECURSIVE EnclosureEvents(_, _)
EnclosureEvents(form, encl) ==
    IF encl = <<>> THEN <<>>
    ELSE LET attrs == <<<<N("url"), encl[1].url>>>>
                        \o (IF encl[1].type = "" THEN <<>>
                            ELSE <<<<N("type"), encl[1].type>>>>)
         IN  (IF form = "Empty" THEN <<Empty(N("enclosure"), attrs)>>
              ELSE <<Start(N("enclosure"), attrs), End(N("enclosure"))>>)
             \o EnclosureEvents(form, Tail(encl))

\* tags and elements written under the root of an RSS 1.0 document, at most
MaxPieces == 4

\* <channel>, </channel>, <item>, </item>, <description>n</description>
Pieces == {"channel", "/channel", "item", "/item", "description"}

\* the elements open after the pieces, innermost last; <<"bad">> when an end
\* tag closes another element than the innermost, or an element opens inside
\* an element of its own name
RECURSIVE Open(_)
Open(pieces) ==
    IF pieces = <<>> THEN <<>>
    ELSE LET before == Open(SubSeq(pieces, 1, Len(pieces) - 1))
             last == pieces[Len(pieces)]
             top == IF before = <<>> THEN "" ELSE before[Len(before)]
         IN  CASE before = <<"bad">> -> before
               [] last \in {"description", "name"} -> before
               [] last \in {"channel", "item", "author", "entry"} ->
                    IF \E i \in 1..Len(before) : before[i] = last THEN <<"bad">>
                    ELSE Append(before, last)
               [] OTHER ->
                    IF "/" \o top = last THEN SubSeq(before, 1, Len(before) - 1)
                    ELSE <<"bad">>

\* an RSS 1.0 document: a channel with the title, then the pieces in any
\* order a well-formed document allows, then the end tags still due
OrderDocs ==
    [family : {"order"},
     pieces : {q \in UNION {[1..k -> Pieces] : k \in 1..MaxPieces} :
                 /\ Open(q) # <<"bad">>
                 /\ \E n \in 1..Len(q) : q[n] = "description"}]

RECURSIVE OrderEvents(_, _)
OrderEvents(pieces, n) ==
    IF n > Len(pieces)
    THEN LET open == Open(pieces)
         IN  [k \in 1..Len(open) |-> End(N(open[Len(open) + 1 - k]))]
    ELSE (CASE pieces[n] = "description" ->
                 <<Start(N("description"), <<>>), Text(ToString(n)), End(N("description"))>>
            [] pieces[n] \in {"channel", "item"} -> <<Start(N(pieces[n]), <<>>)>>
            [] pieces[n] = "/channel" -> <<End(N("channel"))>>
            [] OTHER -> <<End(N("item"))>>)
         \o OrderEvents(pieces, n + 1)

\* tags and elements written under the root of an Atom document, at most
MaxAuthorPieces == 6

\* <author>, </author>, <entry>, </entry>, <name>n</name>
AuthorPieces == {"author", "/author", "entry", "/entry", "name"}

\* an Atom document: the title, then the pieces in any order a well-formed
\* document allows, a name and an entry among them, then the end tags still
\* due
AuthorDocs ==
    [family : {"authors"},
     pieces : {q \in UNION {[1..k -> AuthorPieces] : k \in 2..MaxAuthorPieces} :
                 /\ Open(q) # <<"bad">>
                 /\ \E n \in 1..Len(q) : q[n] = "name"
                 /\ \E n \in 1..Len(q) : q[n] = "entry"}]

RECURSIVE AuthorEvents(_, _)
AuthorEvents(pieces, n) ==
    IF n > Len(pieces)
    THEN LET open == Open(pieces)
         IN  [k \in 1..Len(open) |-> End(N(open[Len(open) + 1 - k]))]
    ELSE (CASE pieces[n] = "name" ->
                 <<Start(N("name"), <<>>), Text(ToString(n)), End(N("name"))>>
            [] pieces[n] \in {"author", "entry"} -> <<Start(N(pieces[n]), <<>>)>>
            [] pieces[n] = "/author" -> <<End(N("author"))>>
            [] OTHER -> <<End(N("entry"))>>)
         \o AuthorEvents(pieces, n + 1)

\* a document of a dialect whose root holds up to MaxPieces start tags, end
\* tags and texts in any order, nested and unbalanced ones included: the
\* item / entry tags, the channel tags (author tags in Atom), the title
\* tags
TagDocs ==
    [family : {"tags"}, dialect : {"Rss2", "Rss1", "Atom"},
     pieces : UNION {[1..k -> {"item", "/item", "channel", "/channel", "title", "/title",
                               "text"}] : k \in 1..MaxPieces}]

TagEvents(dialect, pieces) ==
    LET item == IF dialect = "Atom" THEN N("entry") ELSE N("item")
        channel == IF dialect = "Atom" THEN N("author") ELSE N("channel")
    IN  [n \in 1..Len(pieces) |->
           CASE pieces[n] = "item" -> Start(item, <<>>)
             [] pieces[n] = "/item" -> End(item)
             [] pieces[n] = "channel" -> Start(channel, <<>>)
             [] pieces[n] = "/channel" -> End(channel)
             [] pieces[n] = "title" -> Start(N("title"), <<>>)
             [] pieces[n] = "/title" -> End(N("title"))
             [] OTHER -> Text(ToString(n))]

\* the event stream of a document of any family
Stream(d) ==
    CASE d.family = "cut" -> SubSeq(Render(d.base), 1, d.at) \o <<XmlErr>>
      [] d.family = "detect" ->
           d.pre \o <<d.first>> \o (IF d.first.kind \in {"Eof", "Err"} THEN <<>> ELSE d.rest)
      [] d.family = "fields" ->
           Scoped(d.field.dialect, d.field.scope,
                  ~(d.field.scope = "feed" /\ d.field.name = "title"),
                  Occurrences(d, d.field.tag, d.vals))
      [] d.family = "links" ->
           Scoped("Atom", d.scope, TRUE, LinkEvents(d.form, d.links))
      [] d.family = "categories" ->
           Scoped(d.dialect, "entry", TRUE, CategoryEvents(d, d.vals))
      [] d.family = "dates" -> Scoped("Rss2", "feed", TRUE, DateEvents(d.dates))
      [] d.family = "enclosures" ->
           Scoped("Rss2", "entry", TRUE, EnclosureEvents(d.form, d.encl))
      [] d.family = "order" ->
           <<Decl, Start(Name("rdf", "RDF"), <<>>), Start(N("channel"), <<>>),
             Start(N("title"), <<>>), Text("T"), End(N("title")), End(N("channel"))>>
             \o OrderEvents(d.pieces, 1) \o <<End(Name("rdf", "RDF")), Eof>>
      [] d.family = "tags" ->
           <<Start(CASE d.dialect = "Rss2" -> N("rss")
                     [] d.dialect = "Rss1" -> Name("rdf", "RDF")
                     [] OTHER -> N("feed"), <<>>)>>
             \o TagEvents(d.dialect, d.pieces) \o <<Eof>>
      [] d.family = "authors" ->
           <<Decl, Start(N("feed"), <<>>), Start(N("title"), <<>>), Text("T"),
             End(N("title"))>> \o AuthorEvents(d.pieces, 1) \o <<End(N("feed")), Eof>>

StreamDocs ==
    CutDocs \cup DetectDocs \cup FieldDocs \cup LinkDocs \cup CategoryDocs \cup DateDocs
      \cup EnclosureDocs \cup OrderDocs \cup AuthorDocs \cup TagDocs

DocSpecInit ==
    /\ doc \in StreamDocs
    /\ events = Stream(doc)
    /\ fmt = None
    /\ p = ParserInit(FeedUrl)
    /\ ppc = "detect"
    /\ edit = NoEdit
    /\ parsed = <<>>
    /\ CoordIdle

DocNext ==
    \/ Detect
    \/ OnStart
    \/ OnEmpty
    \/ OnEnd
    \/ OnText
    \/ OnCData
    \/ OnOther
    \/ OnEof
    \/ OnErr

DocSpec == DocSpecInit /\ [][DocNext]_vars

\* the parse of the document has returned
Done == ppc = "done" /\ Len(parsed) = 1

\* C12: when the reader reports malformed XML at any point of a dialect
\* parser's run, the parser returns the XML-parse error and no feed, however
\* many entries it had completed
C12_XmlErrorNoPartialFeed ==
    (Done /\ doc.family = "cut" /\ IsSome(fmt)) =>
        /\ parsed[1].result = "Xml"
        /\ parsed[1].feed = NewFeedValue(FeedUrl)

\* the reader failed after two entries were completed and the title was set:
\* the parse returned the error
C12_Witness ==
    /\ Done
    /\ doc.family = "cut"
    /\ IsSome(fmt)
    /\ Len(p.feed.entries) = 2
    /\ p.feed.title = "T"
    /\ parsed[1].result = "Xml"

\* the format the first element's un-prefixed local name stands for
FormatOf(first) ==
    IF first.kind \notin {"Start", "Empty"} THEN None
    ELSE CASE first.name.local = "rss" -> Some("Rss2")
           [] first.name.local = "RDF" -> Some("Rss1")
           [] first.name.local = "feed" -> Some("Atom")
           [] OTHER -> None

Detected == doc.family = "detect" /\ ppc # "detect"

\* C13: detect_format returns RSS2, RSS1 or Atom when the un-prefixed local
\* name of the first start or self-closing element is rss, RDF or feed, and
\* unknown for any other first element and for input without an element
C13_DetectByFirstElement ==
    Detected => fmt = FormatOf(doc.first)

\* a self-closing rdf:RDF after a declaration and a comment gave RSS1
C13_Witness ==
    /\ Detected
    /\ doc.pre = <<Decl, Comment>>
    /\ doc.first = Empty(Name("rdf", "RDF"), <<>>)
    /\ fmt = Some("Rss1")

\* C14: detect_format's result is fixed by the events up to and including
\* the first start or self-closing element: what stands before it is
\* skipped, nothing after it is inspected, and a reader error before it
\* gives unknown
C14_DetectStopsAtFirstElement ==
    Detected =>
        /\ \A r \in Rests : detect_format(Stream([doc EXCEPT !.rest = r])) = fmt
        /\ detect_format(Stream([doc EXCEPT !.pre = <<>>])) = fmt
        /\ doc.first.kind = "Err" => fmt = None

\* a document whose first element is html and whose second is feed was
\* found unknown, the stream before it skipped
C14_Witness ==
    /\ Detected
    /\ Len(doc.pre) = 2
    /\ doc.first = Start(N("html"), <<>>)
    /\ doc.rest = <<Start(N("feed"), <<>>), End(N("feed")), Eof>>
    /\ fmt = None
    /\ parsed = <<Returned("UnknownFormat", NewFeedValue(FeedUrl))>>


\* the text the parse returned for the repeated field ("" for an absent one)
FieldText ==
    LET c == IF doc.field.scope = "feed" THEN parsed[1].feed
             ELSE parsed[1].feed.entries[1]
        v == c[doc.field.name]
    IN  IF doc.field.name = "title" THEN v ELSE IF IsSome(v) THEN Unwrap(v) ELSE ""

\* the character data of the last occurrence that has any, else ""
RECURSIVE LastNonEmpty(_)
LastNonEmpty(vals) ==
    IF vals = <<>> THEN ""
    ELSE IF vals[Len(vals)] # "" THEN vals[Len(vals)]
    ELSE LastNonEmpty(SubSeq(vals, 1, Len(vals) - 1))

FieldsParsed == Done /\ doc.family = "fields" /\ parsed[1].result = "Ok"

\* C18 as stated: when an element of a scalar text field occurs more than
\* once in one scope, the field ends with the text of the last occurrence
C18_LastOccurrenceWins ==
    FieldsParsed => FieldText = doc.vals[Len(doc.vals)]

\* C18, amended: the field ends with the text of the last occurrence that
\* has character data; an occurrence without any (an empty element, an empty
\* CDATA section) leaves the field as the occurrences before it set it, and a
\* field none of whose occurrences has character data stays unset
C18_LastNonEmptyOccurrenceWins ==
    /\ FieldsParsed =>
          /\ FieldText = LastNonEmpty(doc.vals)
          /\ LET c == IF doc.field.scope = "feed" THEN parsed[1].feed
                      ELSE parsed[1].feed.entries[1]
             IN  doc.field.name # "title" =>
                   (IsSome(c[doc.field.name]) <=> LastNonEmpty(doc.vals) # "")
    /\ (Done /\ doc.family = "fields" /\ parsed[1].result # "Ok") =>
          /\ parsed[1].result = "MissingField"
          /\ doc.field.scope = "feed" /\ doc.field.name = "title"
          /\ LastNonEmpty(doc.vals) = ""

\* an Atom entry with <author><name>a</name></author> and then an author
\* whose name is an empty CDATA section was parsed: the author is still "a"
C18_Witness ==
    /\ FieldsParsed
    /\ doc.field = [dialect |-> "Atom", scope |-> "entry", name |-> "author",
                    tag |-> N("name")]
    /\ doc.delivery = "cdata"
    /\ doc.vals = <<"a", "">>
    /\ parsed[1].feed.entries[1].author = Some("a")


\* the href of the first link that has one and whose rel is alternate, empty
\* or absent; "" when there is none
RECURSIVE FirstAlternate(_)
FirstAlternate(links) ==
    IF links = <<>> THEN ""
    ELSE IF links[1].href # "" /\ links[1].rel \in {"absent", "", "alternate"}
    THEN links[1].href
    ELSE FirstAlternate(Tail(links))

\* C19: in the Atom parser the link of a scope (the feed, or one entry) is
\* the href of the first link element in that scope with a non-empty href
\* and a rel that is alternate, empty or absent; later links, links with
\* another rel and links of the other scope leave it as it is
C19_FirstAlternateLink ==
    (Done /\ doc.family = "links") =>
        /\ parsed[1].result = "Ok"
        /\ Len(parsed[1].feed.entries) = IF doc.scope = "entry" THEN 1 ELSE 0
        /\ parsed[1].feed.link = IF doc.scope = "feed" THEN FirstAlternate(doc.links) ELSE ""
        /\ doc.scope = "entry" => parsed[1].feed.entries[1].link = FirstAlternate(doc.links)

\* an entry with a link h1 without rel, then an alternate link h2, was
\* parsed: its link is h1, and the feed's own link is still empty
C19_Witness ==
    /\ Done
    /\ doc.family = "links" /\ doc.scope = "entry"
    /\ doc.links = <<[href |-> "h1", rel |-> "absent"], [href |-> "h2", rel |-> "alternate"]>>
    /\ parsed[1].feed.entries[1].link = "h1"
    /\ parsed[1].feed.link = ""


\* the occurrences that carry a category: those with non-empty text or term
Carried(vals) == SelectSeq(vals, LAMBDA v : v # "")

IsPrefix(a, b) == Len(a) <= Len(b) /\ a = SubSeq(b, 1, Len(a))

\* C20 as stated: every category occurrence of an entry is appended to its
\* categories, in document order
C20_EveryOccurrenceAppended ==
    (Done /\ doc.family = "categories") =>
        /\ parsed[1].result = "Ok"
        /\ parsed[1].feed.entries[1].categories = doc.vals

\* C20, amended: every category occurrence with non-empty text (RSS 2.0
\* category, RSS 1.0 dc:subject) or a non-empty term (Atom) is appended in
\* document order, duplicates included; an occurrence with empty text or
\* term appends nothing; while the entry is built its list only grows
C20_NonEmptyOccurrencesAppended ==
    /\ (Done /\ doc.family = "categories") =>
          /\ parsed[1].result = "Ok"
          /\ Len(parsed[1].feed.entries) = 1
          /\ parsed[1].feed.entries[1].categories = Carried(doc.vals)
    /\ (doc.family = "categories" /\ IsSome(p.current_entry)) =>
          IsPrefix(Unwrap(p.current_entry).categories, Carried(doc.vals))

\* an Atom entry with <category term="a"/> twice was parsed: both are kept
C20_Witness ==
    /\ Done
    /\ doc.family = "categories" /\ doc.dialect = "Atom" /\ doc.form = "Empty"
    /\ doc.vals = <<"a", "a">>
    /\ parsed[1].feed.entries[1].categories = <<"a", "a">>


\* what parse_date makes of the first channel date that is a date
RECURSIVE FirstDate(_)
FirstDate(dates) ==
    IF dates = <<>> THEN None
    ELSE IF dates[1].val = "d1" THEN Some(1)
    ELSE IF dates[1].val = "d2" THEN Some(2)
    ELSE FirstDate(Tail(dates))

\* C21: in the RSS 2.0 parser the feed's last_updated is set by the first
\* channel-level pubDate or lastBuildDate that parse_date reads as a date;
\* once it holds a value no later one replaces it, at any step of the parse
C21_FirstChannelDateWins ==
    /\ (doc.family = "dates" /\ IsSome(p.feed.last_updated))
          => p.feed.last_updated = FirstDate(doc.dates)
    /\ (Done /\ doc.family = "dates")
          => /\ parsed[1].result = "Ok"
             /\ parsed[1].feed.last_updated = FirstDate(doc.dates)

\* a channel with <pubDate>d1</pubDate> and then <lastBuildDate>d2</lastBuildDate>
\* was parsed: last_updated is the first
C21_Witness ==
    /\ Done
    /\ doc.family = "dates"
    /\ doc.dates = <<[tag |-> "pubDate", val |-> "d1"], [tag |-> "lastBuildDate", val |-> "d2"]>>
    /\ parsed[1].feed.last_updated = Some(1)

\* the url of the last enclosure of an image type that has a url
RECURSIVE LastImage(_)
LastImage(encl) ==
    IF encl = <<>> THEN None
    ELSE LET last == encl[Len(encl)]
         IN  IF last.type = "image/png" /\ last.url # "" THEN Some(last.url)
             ELSE LastImage(SubSeq(encl, 1, Len(encl) - 1))

\* C22: in the RSS 2.0 parser every enclosure of an item whose type starts
\* with image/ and which has a url sets the entry's image_url, written as a
\* start tag or as a self-closing element; other enclosures leave it, and of
\* several image enclosures the last wins
C22_ImageEnclosure ==
    (Done /\ doc.family = "enclosures") =>
        /\ parsed[1].result = "Ok"
        /\ parsed[1].feed.entries[1].image_url = LastImage(doc.encl)

Has(seq, x) == \E i \in 1..Len(seq) : seq[i] = x

\* description n stands inside an open channel element and inside no item
InChannel(pieces, n) ==
    /\ pieces[n] = "description"
    /\ Has(Open(SubSeq(pieces, 1, n)), "channel")
    /\ ~Has(Open(SubSeq(pieces, 1, n)), "item")

\* ... and no item has started since that channel's start tag
InChannelBeforeItems(pieces, n) ==
    /\ InChannel(pieces, n)
    /\ \E c \in 1..n : /\ pieces[c] = "channel"
                        /\ \A k \in c + 1..n : pieces[k] \notin {"channel", "item"}

\* the description of a feed whose channel-level text is applied at the
\* positions in ns, the last one winning
DescriptionFrom(ns) ==
    IF ns = {} THEN None ELSE Some(ToString(CHOOSE n \in ns : \A m \in ns : m <= n))

\* C23 as stated: in the RSS 1.0 parser channel-level text is applied to the
\* feed exactly when it stands inside an open channel element and not inside
\* an item, in every event order, a channel that goes on after an item
\* included
C23_ChannelTextInOpenChannel ==
    (Done /\ doc.family = "order") =>
        /\ parsed[1].result = "Ok"
        /\ parsed[1].feed.description
             = DescriptionFrom({n \in 1..Len(doc.pieces) : InChannel(doc.pieces, n)})

\* C23, amended: in documents whose channel and item elements do not nest in
\* themselves, channel-level text is applied exactly when it stands inside
\* an open channel element, not inside an item, and no item has started
\* since that channel's start tag: channel text that follows an item inside
\* the same channel is dropped
C23_ChannelTextBeforeItems ==
    (Done /\ doc.family = "order") =>
        /\ parsed[1].result = "Ok"
        /\ parsed[1].feed.description
             = DescriptionFrom({n \in 1..Len(doc.pieces) :
                                  InChannelBeforeItems(doc.pieces, n)})

\* <channel><item></item><description>4</description></channel> was parsed:
\* the item is returned, the description that follows it in the channel is
\* not
C23_Witness ==
    /\ Done
    /\ doc.family = "order"
    /\ doc.pieces = <<"channel", "item", "/item", "description">>
    /\ parsed[1].feed.description = None
    /\ Len(parsed[1].feed.entries) = 1

\* the positions of the entry start tags among the pieces, in order
EntryStarts(pieces) ==
    SelectSeq([n \in 1..Len(pieces) |-> n], LAMBDA n : pieces[n] = "entry")

\* name n stands inside entry k while an author element is open
NameOfEntry(pieces, k, n) ==
    LET starts == EntryStarts(pieces)
        open == Open(SubSeq(pieces, 1, n))
    IN  /\ pieces[n] = "name"
        /\ starts[k] < n
        /\ k < Len(starts) => n < starts[k + 1]
        /\ Has(open, "entry")
        /\ Has(open, "author")

\* the author of entry k: the last such name
AuthorOf(pieces, k) ==
    LET ns == {n \in 1..Len(pieces) : NameOfEntry(pieces, k, n)}
    IN  IF ns = {} THEN None ELSE Some(ToString(CHOOSE n \in ns : \A m \in ns : m <= n))

\* C24: in the Atom parser an entry's author is set from the text of a name
\* element only while the parser is inside an entry and inside an author
\* element: a name outside an author element, and an author element at feed
\* level, set no entry's author
C24_AuthorInsideEntryAndAuthor ==
    (Done /\ doc.family = "authors") =>
        /\ parsed[1].result = "Ok"
        /\ Len(parsed[1].feed.entries) = Len(EntryStarts(doc.pieces))
        /\ \A k \in 1..Len(parsed[1].feed.entries) :
              parsed[1].feed.entries[k].author = AuthorOf(doc.pieces, k)

\* <author><name>2</name></author><entry><name>5</name></entry> was parsed:
\* a feed-level author, then an entry with a name outside an author element;
\* the entry has no author
C24_Witness ==
    /\ Done
    /\ doc.family = "authors"
    /\ doc.pieces = <<"author", "name", "/author", "entry", "name", "/entry">>
    /\ Len(parsed[1].feed.entries) = 1
    /\ parsed[1].feed.entries[1].author = None

\* the events of the document that the parse loop has read
Consumed == SubSeq(Render(doc), 1, Len(Render(doc)) - Len(events))

\* the item / entry elements whose end tag has been read
Closed ==
    Len(SelectSeq(Consumed,
                  LAMBDA e : e.kind = "End" /\ local_name(e.name) \in {"item", "entry"}))

\* C25: feed.entries holds one entry per completed item / entry element, in
\* document order: at every point of the parse the entries are those of the
\* items closed so far, each finalized and standing at its item's position,
\* so that an end of item appends one and nothing reorders, merges or
\* removes them
C25_EntriesInDocumentOrder ==
    (ppc \in {"parse", "done"} /\ IsSome(fmt)) =>
        /\ Len(p.feed.entries) = Closed
        /\ \A k \in 1..Closed :
              /\ p.feed.entries[k].id = ExpectedId(doc, k)
              /\ p.feed.entries[k].link = doc.items[k].link

\* an RSS 2.0 document of two different items, its second item still open:
\* the entry of the first one is in the list
C25_Witness ==
    /\ ppc = "parse"
    /\ doc.dialect = "Rss2"
    /\ doc.items = <<[guid |-> "g1", link |-> ""], [guid |-> "", link |-> "l1"]>>
    /\ p.in_item
    /\ Closed = 1
    /\ p.feed.entries = <<[NewFeedEntry("") EXCEPT !.id = "g1"]>>

\* parse_date has returned
DateReturned == ppc = "date" /\ p.returned

\* the attempts that match the date string
Matching(input) == {i \in 1..Len(Attempts) : input.ok[i] # 0}

\* C26: parse_date is total: for every date string it returns a timestamp or
\* unknown, nothing else; the empty string, a string of white space only and
\* a string that no format matches give unknown
C26_ParseDateTotal ==
    ppc = "date" =>
        /\ parse_date(doc.input) \in {None} \cup {Some(t) : t \in 1..MaxStamp}
        /\ (doc.input.blank \/ Matching(doc.input) = {}) => parse_date(doc.input) = None
        /\ p.returned => p.value = parse_date(doc.input)

\* parse_date has returned unknown for a string of white space only
C26_Witness ==
    /\ DateReturned
    /\ doc.input.spaces
    /\ doc.input.blank
    /\ p.value = None

\* the attempts in the order of the code, up to and with attempt k, without
\* the one on the replaced string where the replacement changes nothing
AttemptsUpTo(input, k) ==
    SelectSeq([i \in 1..k |-> i], LAMBDA i : i # 3 \/ input.named)

\* C27: parse_date tries RFC 3339, RFC 2822, RFC 2822 on the string with its
\* zone names replaced (only where the replacement changed the string), the
\* naive patterns and the date-only pattern in this order, and returns the
\* result of the first attempt that matches without making a later one
C27_FirstMatchingFormat ==
    (DateReturned /\ ~doc.input.blank) =>
        LET tryable == {i \in Matching(doc.input) : i # 3 \/ doc.input.named}
        IN  IF tryable = {}
            THEN /\ p.tried = AttemptsUpTo(doc.input, Len(Attempts))
                 /\ p.value = None
            ELSE LET first == CHOOSE i \in tryable : \A j \in tryable : i <= j
                 IN  /\ p.tried = AttemptsUpTo(doc.input, first)
                     /\ p.value = Some(doc.input.ok[first])

\* a string that the last two naive patterns read as two different dates:
\* parse_date has returned the first one's and has not tried the second,
\* nor the replaced string
C27_Witness ==
    /\ DateReturned
    /\ ~doc.input.named
    /\ Matching(doc.input) = {11, 12}
    /\ doc.input.ok[11] # doc.input.ok[12]
    /\ p.value = Some(doc.input.ok[11])
    /\ p.tried = <<1, 2, 4, 5, 6, 7, 8, 9, 10, 11>>

\* discover has returned after a first response that arrived whole
Discovered == ppc = "discover" /\ p.pc = "done" /\ doc.get = "ok"

\* the response is a feed by its content type, or by the text its body
\* begins with after the white space
FeedResponse ==
    \/ doc.ct \in {"application/rss+xml", "application/atom+xml", "application/feed+json",
                   "TEXT/XML"}
    \/ doc.body.head \in {"<?xml", "<rss", "<feed", "<feedback", "<rdf:RDF"}

TheGet == Request("GET", doc.url.text)

\* C28: when the response's content type indicates a feed, or the body
\* begins, after its white space, with <?xml, <rss, <feed or <rdf:RDF,
\* discover returns the URL it was given as the only candidate and makes no
\* further request
C28_FeedUrlReturnedAlone ==
    (Discovered /\ FeedResponse) =>
        /\ p.result = "Ok"
        /\ p.value = <<doc.url.text>>
        /\ events = <<TheGet>>

\* an HTML content type and a body of white space and then <rss, on a site
\* with a feed link and feeds at the common paths: the URL itself came back
\* after the one request
C28_Witness ==
    /\ Discovered
    /\ doc.ct = "text/html"
    /\ doc.body = [lead |-> " ", head |-> "<rss", links |-> <<FeedLink>>]
    /\ p.value = <<doc.url.text>>
    /\ Len(events) = 1

\* the links of the page that name a feed, in document order
FeedLinks ==
    SelectSeq(doc.body.links,
              LAMBDA l : /\ l.rel = "alternate"
                         /\ l.type \in {"application/rss+xml", "application/atom+xml",
                                         "application/feed+json"}
                         /\ l.href # "")

\* an href read against the page's URL; the one that is no URL stays as it
\* is written
Resolved(href) ==
    CASE href = "/feed.xml" -> "http://s/feed.xml"
      [] href = "rss.xml" ->
           IF doc.url.text = "http://s" THEN "http://s/rss.xml" ELSE "http://s/blog/rss.xml"
      [] OTHER -> href

\* C29: when the page is not itself a feed and holds at least one link
\* rel="alternate" whose type contains rss, atom or feed and whose href is
\* not empty, discover returns exactly those links, each resolved against
\* the page's URL, in document order and with duplicates kept, and probes no
\* common path
C29_FeedLinksReturned ==
    (Discovered /\ ~FeedResponse /\ FeedLinks # <<>>) =>
        /\ p.result = "Ok"
        /\ p.value = [k \in 1..Len(FeedLinks) |-> Resolved(FeedLinks[k].href)]
        /\ events = <<TheGet>>

\* a page under /blog/ that names the feed rss.xml twice: both came back,
\* resolved, after the one request
C29_Witness ==
    /\ Discovered
    /\ doc.url.text = "http://s/blog/p"
    /\ doc.body.links = <<[rel |-> "alternate", type |-> "application/rss+xml",
                           href |-> "rss.xml"],
                         [rel |-> "alternate", type |-> "application/rss+xml",
                           href |-> "rss.xml"]>>
    /\ p.value = <<"http://s/blog/rss.xml", "http://s/blog/rss.xml">>
    /\ Len(events) = 1

\* the common paths that answer with success and an XML-like content type
Hits ==
    {i \in 1..Len(COMMON_FEED_PATHS) :
       /\ doc.probes[i].sent
       /\ doc.probes[i].status = 200
       /\ doc.probes[i].ct \in {"application/rss+xml", "text/xml", "TEXT/XML"}}

\* the requests for the first n common paths, in the list's order
Probed(n) == [k \in 1..n |-> Request("HEAD", "http://s" \o COMMON_FEED_PATHS[k])]

\* C30: when the page yields no feed link, discover probes the common paths
\* in the order of the list and returns as the only candidate the first one
\* whose response succeeds and reports an XML-like content type; it requests
\* no path after that one, and skips a path whose request fails or whose
\* content type does not match
C30_FirstAnsweringPath ==
    (Discovered /\ ~FeedResponse /\ FeedLinks = <<>>) =>
        IF Hits = {}
        THEN /\ p.result = "Discovery"
             /\ events = <<TheGet>> \o Probed(Len(COMMON_FEED_PATHS))
        ELSE LET first == CHOOSE i \in Hits : \A j \in Hits : i <= j
             IN  /\ p.result = "Ok"
                 /\ p.value = <<"http://s" \o COMMON_FEED_PATHS[first]>>
                 /\ events = <<TheGet>> \o Probed(first)

\* /rss answers 404 with a feed's content type, /feed.xml answers 200 with
\* TEXT/XML, the other paths fail: /feed.xml came back after four probes
C30_Witness ==
    /\ Discovered
    /\ doc.family = "probes"
    /\ doc.probes[2] = [sent |-> TRUE, status |-> 404, ct |-> "application/rss+xml"]
    /\ doc.probes[4] = [sent |-> TRUE, status |-> 200, ct |-> "TEXT/XML"]
    /\ p.value = <<"http://s/feed.xml">>
    /\ Len(events) = 5

\* C31: when the URL is not a feed, the page has no feed link and no probed
\* path matches, discover fails with a discovery error that names the URL
\* it was given; and discover never returns an empty list of candidates as
\* a success
C31_NoFeedIsAnError ==
    /\ (Discovered /\ ~FeedResponse /\ FeedLinks = <<>> /\ Hits = {}) =>
          /\ p.result = "Discovery"
          /\ p.value = <<>>
          /\ p.error \in {"No feed found at http://s. Try providing the direct feed URL.",
                           "No feed found at http://s/blog/p. Try providing the direct feed URL."}
          /\ p.error = "No feed found at " \o doc.url.text
                         \o ". Try providing the direct feed URL."
    /\ (ppc = "discover" /\ p.pc = "done" /\ p.result = "Ok") => p.value # <<>>

\* a page under /blog/ with a link that is no feed link, /feed answering 200
\* with HTML and /rss 404: all nine paths were probed and discover failed
C31_Witness ==
    /\ Discovered
    /\ doc.family = "probes"
    /\ doc.url.text = "http://s/blog/p"
    /\ doc.body.links # <<>>
    /\ doc.probes[1] = [sent |-> TRUE, status |-> 200, ct |-> "text/html"]
    /\ doc.probes[2] = [sent |-> TRUE, status |-> 404, ct |-> "application/rss+xml"]
    /\ Len(events) = 10
    /\ p.result = "Discovery"
    /\ p.error = "No feed found at http://s/blog/p. Try providing the direct feed URL."

\* C34: the top-level parse invokes exactly the dialect parser that matches
\* detect_format's result: every iteration of the parse loop is that
\* parser's; and when detection yields unknown, parse returns the
\* unknown-format error with no event handed to any dialect parser
C34_DispatchOnDetectedFormat ==
    [][/\ (ppc = "detect" /\ ~IsSome(fmt')) =>
             /\ ppc' = "done"
             /\ p' = p /\ events' = events
             /\ parsed' = Append(parsed, [doc |-> doc, result |-> "UnknownFormat",
                                          feed |-> NewFeedValue(FeedUrl)])
       /\ (ppc = "detect" /\ IsSome(fmt')) =>
             /\ ppc' = "parse"
             /\ p' = p /\ events' = events /\ parsed' = parsed
       /\ ppc = "parse" =>
             /\ fmt' = fmt
             /\ events' = Tail(events)
             /\ p' = CASE fmt = Some("Rss2") -> rss2_step(p, Head(events))
                       [] fmt = Some("Rss1") -> rss1_step(p, Head(events))
                       [] fmt = Some("Atom") -> atom_step(p, Head(events))]_vars

\* an RSS 1.0 document was detected as such and parsed to a feed with an
\* entry
C34_Witness ==
    /\ Done
    /\ doc.family = "order"
    /\ fmt = Some("Rss1")
    /\ parsed[1].result = "Ok"
    /\ Len(parsed[1].feed.entries) = 1

\* C35: in every state of each dialect parser an entry in progress exists
\* if and only if the parser's inside-item (inside-entry) flag is set,
\* whatever the order of the events, nested and unbalanced item tags
\* included
C35_EntryIffInItem ==
    ppc \in {"detect", "parse", "done"} => (IsSome(p.current_entry) <=> p.in_item)

\* an RSS 2.0 channel with an item tag inside an open item and one end tag:
\* after the end tag one entry is in the list, none is in progress and the
\* flag is clear
C35_Witness ==
    /\ ppc = "parse"
    /\ doc.family = "tags"
    /\ doc.dialect = "Rss2"
    /\ doc.pieces = <<"channel", "item", "item", "/item">>
    /\ events = <<Eof>>
    /\ Len(p.feed.entries) = 1
    /\ ~p.in_item
    /\ p.current_entry = None

\* the start and end tags of the document that the parse loop has read
TagsRead ==
    SelectSeq(SubSeq(Stream(doc), 1, Len(Stream(doc)) - Len(events)),
              LAMBDA e : e.kind \in {"Start", "End"})

\* no start tag has been read since the last end tag
AfterEnd == TagsRead # <<>> /\ TagsRead[Len(TagsRead)].kind = "End"

\* C36: the current tag and the qualified name are cleared on every end of
\* an element, so that character data is assigned to a field only when no
\* end tag has been read since the last start tag: text that follows a
\* closed child element inside the same parent is assigned to no field
C36_NoFieldAfterEndTag ==
    [][(ppc = "parse" /\ AfterEnd) =>
          /\ p.current_tag = ""
          /\ p.current_ns_tag = NoName
          /\ Head(events).kind \in {"Text", "CData"} =>
                /\ p'.feed = p.feed
                /\ p'.current_entry = p.current_entry]_vars

\* the Atom document <feed><title>2</title>4 was parsed: the title is 2
C36_Witness ==
    /\ Done
    /\ doc.family = "tags"
    /\ doc.dialect = "Atom"
    /\ doc.pieces = <<"title", "text", "/title", "text">>
    /\ parsed[1].result = "Ok"
    /\ parsed[1].feed.title = "2"

\* the next event is character data or a link element
TextOrLink ==
    /\ ppc = "parse"
    /\ events # <<>>
    /\ \/ Head(events).kind \in {"Text", "CData"}
       \/ Head(events).kind \in {"Start", "Empty"} /\ local_name(Head(events).name) = "link"

\* C37: while a parser is inside an entry / item, character data and link
\* events modify the entry in progress only: the feed-level fields and the
\* entries already appended stay as they are; outside an entry such events
\* modify no entry
C37_TextAndLinksStayInScope ==
    [][TextOrLink =>
          IF p.in_item
          THEN p'.feed = p.feed
          ELSE /\ p'.feed.entries = p.feed.entries
               /\ p'.current_entry = p.current_entry]_vars

\* an Atom feed whose only entry holds the link h1 and a second link: the
\* entry has h1, the feed has no link and its title
C37_Witness ==
    /\ Done
    /\ doc.family = "links"
    /\ doc.scope = "entry"
    /\ Len(doc.links) = 2
    /\ doc.links[1] = [href |-> "h1", rel |-> "alternate"]
    /\ parsed[1].feed.entries[1].link = "h1"
    /\ parsed[1].feed.link = ""
    /\ parsed[1].feed.title = "T"

-----------------------------------------------------------------------------
(* LoopSpec: the detector's loop and the dialect parser's loop, one action  *)
(* per loop iteration; each loop reads from a reader of its own over the    *)
(* same document.  The loops are straight-line code over a buffer in memory *)
(* and nothing in them waits, so an iteration that can run does run.        *)

DetectorInit(evs) == [pc |-> "running", reader |-> evs, format |-> None]

\* a detector whose skipped events are not taken off its reader
detect_step_rereading(st) ==
    LET e == Head(st.reader)
        read == [st EXCEPT !.reader = Tail(@)]
    IN  CASE e.kind \in {"Start", "Empty"} ->
               [read EXCEPT !.pc = "returned",
                            !.format = CASE local_name(e.name) = "rss" -> Some("Rss2")
                                         [] local_name(e.name) = "RDF" -> Some("Rss1")
                                         [] local_name(e.name) = "feed" -> Some("Atom")
                                         [] OTHER -> None]
          [] e.kind \in {"Eof", "Err"} -> [read EXCEPT !.pc = "returned"]
          [] OTHER -> st

\* one iteration of detect_format's loop: read_event_into, then the match
detect_step(st) ==
    LET e == Head(st.reader)
        read == [st EXCEPT !.reader = Tail(@)]
    IN  CASE e.kind \in {"Start", "Empty"} ->
               [read EXCEPT !.pc = "returned",
                            !.format = CASE local_name(e.name) = "rss" -> Some("Rss2")
                                         [] local_name(e.name) = "RDF" -> Some("Rss1")
                                         [] local_name(e.name) = "feed" -> Some("Atom")
                                         [] OTHER -> None]
          [] e.kind \in {"Eof", "Err"} -> [read EXCEPT !.pc = "returned"]
          [] OTHER -> read

\* the documents the loops are run over: every way to the first element,
\* a reader error at every point of a feed, scalar fields in the three
\* dialects, items in and after the channel, nested author elements
LoopDocs ==
    {d \in StreamDocs : d.family \in {"detect", "cut", "fields", "order", "authors"}}

LoopSpecInit ==
    /\ doc \in LoopDocs
    /\ events = Stream(doc)
    /\ fmt = None
    /\ p = DetectorInit(events)
    /\ ppc = "detecting"
    /\ edit = NoEdit
    /\ parsed = <<>>
    /\ CoordIdle

\* an iteration of the detector that goes round again
DetectSkip ==
    /\ ppc = "detecting"
    /\ p.reader # <<>>
    /\ detect_step(p).pc = "running"
    /\ p' = detect_step(p)
    /\ UNCHANGED <<doc, events, fmt, ppc, edit, parsed>>
    /\ UNCHANGED cvars

\* the iteration on which detect_format returns, and feed::parse's dispatch
DetectReturn ==
    /\ ppc = "detecting"
    /\ p.reader # <<>>
    /\ detect_step(p).pc = "returned"
    /\ fmt' = detect_step(p).format
    /\ IF IsSome(fmt')
       THEN /\ p' = ParserInit(FeedUrl)
            /\ ppc' = "parse"
            /\ parsed' = parsed
       ELSE /\ p' = detect_step(p)
            /\ ppc' = "done"
            /\ parsed' = Append(parsed, Returned("UnknownFormat", NewFeedValue(FeedUrl)))
    /\ UNCHANGED <<doc, events, edit>>
    /\ UNCHANGED cvars

LoopNext ==
    \/ DetectSkip
    \/ DetectReturn
    \/ OnStart
    \/ OnEmpty
    \/ OnEnd
    \/ OnText
    \/ OnCData
    \/ OnOther
    \/ OnEof
    \/ OnErr

LoopSpec == LoopSpecInit /\ [][LoopNext]_vars /\ WF_vars(LoopNext)

\* the events that end the detector's loop, and the parser's
DetectorEnds == {"Start", "Empty", "Eof", "Err"}
ParserEnds == {"Eof", "Err"}

\* one iteration of either loop: it takes exactly one event off its reader,
\* and it is the last one exactly on an event that ends that loop
LoopIteration ==
    /\ ppc = "detecting" =>
         /\ p.reader # <<>>
         /\ detect_step(p).reader = Tail(p.reader)
         /\ (ppc' # "detecting") <=> (Head(p.reader).kind \in DetectorEnds)
         /\ ppc' = "detecting" => p'.reader = Tail(p.reader)
         /\ events' = events
    /\ ppc = "parse" =>
         /\ events # <<>>
         /\ events' = Tail(events)
         /\ (ppc' = "done") <=> (Head(events).kind \in ParserEnds)
         /\ (p'.result # "running") <=> (Head(events).kind \in ParserEnds)
    /\ ppc # "done"

\* C39: the format detector and each dialect parser terminate on every
\* finite event stream: every loop iteration consumes one event of its
\* reader, the detector's loop ends at its first element, at end of input or
\* at a reader error, the parser's loop at end of input or at the first
\* reader error, and every run of the two loops reaches its return
C39_LoopsTerminate ==
    /\ [][LoopIteration]_vars
    /\ <>(ppc = "done" /\ Len(parsed) = 1)

\* an Atom document with skipped events before its root has been read to
\* the end of input by the parser, after the detector stopped at the root
C39_Witness ==
    /\ doc.family = "detect"
    /\ doc.pre # <<>>
    /\ fmt = Some("Atom")
    /\ ppc = "done"
    /\ events = <<>>
    /\ Len(parsed) = 1
    /\ parsed[1].result \in {"Ok", "MissingField"}

-----------------------------------------------------------------------------
(* Storage: the feeds and articles tables (crates/boke-core/src/db/sqlite.rs) *)

\* AUTOINCREMENT: one more than the largest id in the table (no row is deleted)
NextId(rows) == IF rows = {} THEN 1 ELSE 1 + CHOOSE m \in {r.id : r \in rows} :
                                               \A r \in rows : r.id <= m

ArticleRow(id, feed_id, guid) == [id |-> id, feed_id |-> feed_id, guid |-> guid]
FeedRow(id, feed_url, last_fetched_at) ==
    [id |-> id, feed_url |-> feed_url, last_fetched_at |-> last_fetched_at]

\* a plain INSERT: the row is added whatever the table holds
insert_article_no_conflict_check(arts, fds, feed_id, guid) ==
    IF ~\E f \in fds : f.id = feed_id
    THEN [result |-> "Error", id |-> 0, articles |-> arts]
    ELSE [result |-> "Inserted", id |-> NextId(arts),
          articles |-> arts \cup {ArticleRow(NextId(arts), feed_id, guid)}]

\* INSERT OR REPLACE: a conflicting row gives way to a new one
insert_article_or_replace(arts, fds, feed_id, guid) ==
    IF ~\E f \in fds : f.id = feed_id
    THEN [result |-> "Error", id |-> 0, articles |-> arts]
    ELSE [result |-> "Inserted", id |-> NextId(arts),
          articles |-> {a \in arts : ~(a.feed_id = feed_id /\ a.guid = guid)}
                       \cup {ArticleRow(NextId(arts), feed_id, guid)}]

\* INSERT OR IGNORE whose rows_affected() is not looked at
insert_article_rows_affected_unread(arts, fds, feed_id, guid) ==
    IF ~\E f \in fds : f.id = feed_id
    THEN [result |-> "Error", id |-> 0, articles |-> arts]
    ELSE IF \E a \in arts : a.feed_id = feed_id /\ a.guid = guid
    THEN [result |-> "Inserted", id |-> 0, articles |-> arts]
    ELSE [result |-> "Inserted", id |-> NextId(arts),
          articles |-> arts \cup {ArticleRow(NextId(arts), feed_id, guid)}]

\* INSERT OR IGNORE under a UNIQUE(guid) that leaves the feed out
insert_article_unique_guid(arts, fds, feed_id, guid) ==
    IF ~\E f \in fds : f.id = feed_id
    THEN [result |-> "Error", id |-> 0, articles |-> arts]
    ELSE IF \E a \in arts : a.guid = guid
    THEN [result |-> "Ignored", id |-> 0, articles |-> arts]
    ELSE [result |-> "Inserted", id |-> NextId(arts),
          articles |-> arts \cup {ArticleRow(NextId(arts), feed_id, guid)}]

\* INSERT OR IGNORE INTO articles ... under UNIQUE(feed_id, guid) and the
\* foreign key on feed_id; rows_affected() > 0 gives Inserted(rowid)
insert_article(arts, fds, feed_id, guid) ==
    IF ~\E f \in fds : f.id = feed_id
    THEN [result |-> "Error", id |-> 0, articles |-> arts]
    ELSE IF \E a \in arts : a.feed_id = feed_id /\ a.guid = guid
    THEN [result |-> "Ignored", id |-> 0, articles |-> arts]
    ELSE [result |-> "Inserted", id |-> NextId(arts),
          articles |-> arts \cup {ArticleRow(NextId(arts), feed_id, guid)}]

\* SELECT feed_url FROM feeds WHERE id = ?
get_feed_url(fds, id) ==
    IF \E f \in fds : f.id = id
    THEN Some((CHOOSE f \in fds : f.id = id).feed_url)
    ELSE None

\* UPDATE feeds SET last_fetched_at = CURRENT_TIMESTAMP WHERE id = ?
\* (last_fetched_at: 0 is NULL, n the n-th timestamp written to the row)
update_feed_last_fetched(fds, id) ==
    {IF f.id = id THEN [f EXCEPT !.last_fetched_at = @ + 1] ELSE f : f \in fds}

\* INSERT INTO feeds ... under UNIQUE(feed_url); fetched is the last_fetched_at
\* the statement writes (the desktop command writes CURRENT_TIMESTAMP)
insert_feed(fds, feed_url, fetched) ==
    IF \E f \in fds : f.feed_url = feed_url
    THEN [result |-> "Error", id |-> 0, feeds |-> fds]
    ELSE [result |-> "Ok", id |-> NextId(fds),
          feeds |-> fds \cup {FeedRow(NextId(fds), feed_url, fetched)}]

\* SELECT ... FROM feeds: the ids, in id order
RECURSIVE feed_ids(_)
feed_ids(fds) ==
    IF fds = {} THEN <<>>
    ELSE LET f == CHOOSE x \in fds : \A y \in fds : y.id <= x.id
         IN  Append(feed_ids(fds \ {f}), f.id)


-----------------------------------------------------------------------------
(* The ingestion coordinator: what the network serves *)

Urls == {"u1", "u2", "u3"}

ItemA == [guid |-> "g1", link |-> ""]
ItemB == [guid |-> "", link |-> "l1"]
ItemA2 == [guid |-> "g1", link |-> "l1"]
ItemC == [guid |-> "", link |-> ""]

\* the feed each publisher serves, unchanged during a run: two entries with
\* distinct ids, two entries that repeat one id, one entry with neither guid
\* nor link
Source(url) ==
    CASE url = "u1" -> [dialect |-> "Rss2", title |-> "T", items |-> <<ItemA, ItemB>>,
                        delivery |-> "text"]
      [] url = "u2" -> [dialect |-> "Atom", title |-> "T", items |-> <<ItemA, ItemA2>>,
                        delivery |-> "cdata"]
      [] OTHER -> [dialect |-> "Rss1", title |-> "T", items |-> <<ItemC>>,
                   delivery |-> "text"]

\* a body that is no feed
Garbage == [dialect |-> "Html", title |-> "T", items |-> <<>>, delivery |-> "text"]

\* the publisher's feed cut off by malformed XML after its last item
Broken(url) == [Source(url) EXCEPT !.delivery = "malformed"]

\* client.get(url).send(): a transport error (timeout), or a body
FetchOutcomes(url) ==
    {[status |-> "transport", body |-> Garbage]}
    \cup {[status |-> "ok", body |-> b] : b \in {Source(url), Garbage, Broken(url)}}

\* discovery::discover(url): an error (the page cannot be fetched, or nothing
\* was found by any strategy), the url itself when it serves a feed, or the
\* feed links of the page in document order
DiscoverOutcomes(url) ==
    {[ok |-> FALSE, feeds |-> <<>>],
     [ok |-> TRUE, feeds |-> <<url>>],
     [ok |-> TRUE, feeds |-> <<IF url = "u1" THEN "u2" ELSE "u1", url>>]}

-----------------------------------------------------------------------------
(* The ingestion coordinator: one refresh (FeedService::refresh_feed,        *)
(* do_refresh) as the steps between its await points                       *)

\* a refresh in flight.  fetched, outcomes, added, missing0, quiet and
\* after_ok are history kept for the properties: whether the GET was sent,
\* what each insert_article returned, the rows its inserts added, the entries
\* not yet stored when it began, whether nothing else was working on the feed
\* then, and whether a refresh of the feed had already returned Ok then
NewJob(feed_id, feed_url) ==
    [feed_id |-> feed_id, feed_url |-> feed_url, pc |-> "start",
     entries |-> <<>>, i |-> 1, new_count |-> 0, err |-> "", fetched |-> FALSE,
     outcomes |-> <<>>, added |-> 0, missing0 |-> 0, quiet |-> FALSE, after_ok |-> FALSE]

Fail(job, err) == [job EXCEPT !.pc = "err", !.err = err]

\* entry.guid() of every parsed entry, in order
Guids(feed) == [i \in 1..Len(feed.entries) |-> feed.entries[i].id]

\* a fetch and parse that notes a failure and goes on to the last-fetched
\* update
fetch_and_parse_going_on(job, outcome) ==
    LET sent == [job EXCEPT !.fetched = TRUE] IN
    IF outcome.status = "transport" THEN [sent EXCEPT !.err = "transport", !.pc = "update"]
    ELSE LET r == parse(Render(outcome.body), job.feed_url) IN
         IF r.result # "Ok" THEN [sent EXCEPT !.err = r.result, !.pc = "update"]
         ELSE [sent EXCEPT !.entries = Guids(r.feed),
                           !.pc = IF Len(r.feed.entries) = 0 THEN "update" ELSE "insert"]

\* GET the feed, parse the body; then the insert loop, or straight to the
\* last-fetched update when the feed has no entry
fetch_and_parse(job, outcome) ==
    LET sent == [job EXCEPT !.fetched = TRUE] IN
    IF outcome.status = "transport" THEN Fail(sent, "transport")
    ELSE LET r == parse(Render(outcome.body), job.feed_url) IN
         IF r.result # "Ok" THEN Fail(sent, r.result)
         ELSE [sent EXCEPT !.entries = Guids(r.feed),
                           !.pc = IF Len(r.feed.entries) = 0 THEN "update" ELSE "insert"]

\* a refresh that fetches without looking the feed up
refresh_feed_begin_unchecked(fds, feed_id, outcome) ==
    fetch_and_parse(NewJob(feed_id, IF IsSome(get_feed_url(fds, feed_id))
                                    THEN Unwrap(get_feed_url(fds, feed_id)) ELSE "u1"),
                    outcome)

\* FeedService::refresh_feed up to its loop: the feed must be known
refresh_feed_begin(fds, feed_id, outcome) ==
    LET url == get_feed_url(fds, feed_id) IN
    IF ~IsSome(url) THEN Fail(NewJob(feed_id, ""), "Feed not found")
    ELSE fetch_and_parse(NewJob(feed_id, Unwrap(url)), outcome)

\* do_refresh up to its loop: the caller passes the url
do_refresh_begin(feed_id, feed_url, outcome) ==
    fetch_and_parse(NewJob(feed_id, feed_url), outcome)

\* a loop that steps over every other entry
AfterInsert_skipping(job) ==
    [job EXCEPT !.i = @ + 2,
                !.pc = IF job.i + 2 > Len(job.entries) THEN "update" ELSE "insert"]

\* the loop moves to the next entry, or leaves for the last-fetched update
AfterInsert(job) ==
    [job EXCEPT !.i = @ + 1,
                !.pc = IF job.i + 1 > Len(job.entries) THEN "update" ELSE "insert"]

\* a loop that logs a failed insert and goes on
refresh_insert_swallowing_errors(job, r) ==
    [AfterInsert(job) EXCEPT
       !.new_count = IF r.result = "Inserted" THEN @ + 1 ELSE @]

\* a loop that counts every insert that did not fail
refresh_insert_counting_ignored(job, r) ==
    IF r.result = "Error" THEN Fail(job, "insert")
    ELSE [AfterInsert(job) EXCEPT !.new_count = @ + 1]

\* one iteration of the insert loop, r being insert_article's return: an
\* error ends the refresh, only Inserted is counted
refresh_insert(job, r) ==
    IF r.result = "Error" THEN Fail(job, "insert")
    ELSE [AfterInsert(job) EXCEPT
            !.new_count = IF r.result = "Inserted" THEN @ + 1 ELSE @]

\* after update_feed_last_fetched, r being its return: an error ends the
\* refresh like any other, else Ok
refresh_done(job, r) == IF r = "Error" THEN Fail(job, "update") ELSE [job EXCEPT !.pc = "ok"]

\* RefreshResult of FeedService (feed_id, new_articles)
core_result(job) == [feed_id |-> job.feed_id, new_articles |-> job.new_count]

\* refresh_all_feeds' Err arm: log::warn!, then a result with zero articles
core_failed_result(job) == [feed_id |-> job.feed_id, new_articles |-> 0]

\* RefreshResult of the desktop commands (feed_id, new_articles, error)
tauri_result(job) ==
    IF job.pc = "ok"
    THEN [feed_id |-> job.feed_id, new_articles |-> job.new_count, error |-> None]
    ELSE [feed_id |-> job.feed_id, new_articles |-> 0, error |-> Some(job.err)]

Finished(job) == job.pc \in {"ok", "err"}


-----------------------------------------------------------------------------
(* The ingestion coordinator: operations *)

\* an operation (a command or a request): kind is "add", "refresh",
\* "refresh_all" or "insert"; arg is what it was called with and met (the
\* url and what discovery returned, whether the feed id was known, the guid);
\* rows are the feed ids it works on; jobs its refreshes begun so far;
\* results what it has collected or returned
Op(kind, arg, pc, rows, jobs, results) ==
    [kind |-> kind, arg |-> arg, pc |-> pc, rows |-> rows, jobs |-> jobs,
     results |-> results]

Ended(op, pc, results) == [op EXCEPT !.pc = pc, !.results = results]

\* FeedService::refresh_feed's return: `?` on every failure
refresh_feed_return(op, job) ==
    IF job.pc = "ok" THEN Ended(op, "ok", <<core_result(job)>>)
    ELSE Ended(op, "err", <<>>)

\* the refresh_feed command: an unknown feed is an Err, a failed do_refresh
\* an Ok result that carries the error
tauri_refresh_feed_return(op, job) ==
    IF job.err = "Feed not found" THEN Ended(op, "err", <<>>)
    ELSE Ended(op, "ok", <<tauri_result(job)>>)

refresh_all_feeds_push_abort(op, job) ==
    IF job.pc = "ok"
    THEN LET results == Append(op.results, core_result(job))
         IN  IF Len(op.jobs) = Len(op.rows) THEN Ended(op, "ok", results)
             ELSE [op EXCEPT !.results = results]
    ELSE Ended(op, "err", <<>>)

\* FeedService::refresh_all_feeds, after refresh_feed(feed.id) returned for
\* the feed it is at: push the result either way, return after the last feed
refresh_all_feeds_push(op, job) ==
    LET results == Append(op.results,
                          IF job.pc = "ok" THEN core_result(job)
                          ELSE core_failed_result(job))
    IN  IF Len(op.jobs) = Len(op.rows) THEN Ended(op, "ok", results)
        ELSE [op EXCEPT !.results = results]

\* a refresh_all_feeds command that returns with the first task that ends
tauri_refresh_all_join_first(op, job) ==
    Ended(op, "ok", Append(op.results, tauri_result(job)))

\* the refresh_all_feeds command: join_next hands over each finished task's
\* result, in completion order; Ok(results) once the JoinSet is empty
tauri_refresh_all_join(op, job) ==
    LET results == Append(op.results, tauri_result(job))
    IN  IF \A j \in 1..Len(op.jobs) : Finished(op.jobs[j])
        THEN Ended(op, "ok", results)
        ELSE [op EXCEPT !.results = results]

\* the operation after its job j took a step: a finished job is handed to
\* the operation's own continuation
Settle(op, j) ==
    LET job == op.jobs[j] IN
    IF ~Finished(job) THEN op
    ELSE CASE op.kind = "refresh" /\ impl = "core" -> refresh_feed_return(op, job)
           [] op.kind = "refresh" /\ impl = "tauri" -> tauri_refresh_feed_return(op, job)
           [] op.kind = "refresh_all" /\ impl = "core" -> refresh_all_feeds_push(op, job)
           [] op.kind = "refresh_all" /\ impl = "tauri" -> tauri_refresh_all_join(op, job)

Running(k) == k \in 1..Len(ops) /\ ops[k].pc = "run"

InRows(op, fid) == \E r \in 1..Len(op.rows) : op.rows[r] = fid

StoredGuids(arts, fid) == {a.guid : a \in {x \in arts : x.feed_id = fid}}

\* the history fields of a job that operation self begins now
Begun(job, self) ==
    [job EXCEPT
       !.missing0 = Cardinality({job.entries[i] : i \in 1..Len(job.entries)}
                                \ StoredGuids(articles, job.feed_id)),
       !.quiet = ~\E k \in 1..Len(ops) :
                     k # self /\ Running(k) /\ InRows(ops[k], job.feed_id),
       !.after_ok = \E k \in 1..Len(ops) : \E j \in 1..Len(ops[k].jobs) :
                       /\ ops[k].kind \in {"refresh", "refresh_all"}
                       /\ ops[k].jobs[j].feed_id = job.feed_id
                       /\ ops[k].jobs[j].pc = "ok"]

FeedIdArgs == {1, 2, 3}

UrlOf(fid) == IF IsSome(get_feed_url(feeds, fid)) THEN Unwrap(get_feed_url(feeds, fid))
              ELSE "u1"

\* POST /feeds/{id}/refresh, or the refresh_feed command
StartRefreshFeed ==
    /\ Len(ops) < MaxOps
    /\ \E fid \in FeedIdArgs : \E out \in FetchOutcomes(UrlOf(fid)) :
         LET job == IF impl = "core"
                    THEN Begun(refresh_feed_begin(feeds, fid, out), Len(ops) + 1)
                    ELSE IF IsSome(get_feed_url(feeds, fid))
                    THEN Begun(do_refresh_begin(fid, UrlOf(fid), out), Len(ops) + 1)
                    ELSE Fail(NewJob(fid, ""), "Feed not found")
             arg == [known |-> \E f \in feeds : f.id = fid]
             op == Op("refresh", arg, "run", <<fid>>, <<job>>, <<>>)
         IN  ops' = Append(ops, Settle(op, 1))
    /\ UNCHANGED <<impl, feeds, articles>>
    /\ UNCHANGED pvars

\* POST /feeds/refresh on the server: the feeds are refreshed one after the
\* other, this is get_feeds()
StartRefreshAllCore ==
    /\ impl = "core"
    /\ Len(ops) < MaxOps
    /\ ~\E k \in 1..Len(ops) : ops[k].kind = "refresh_all"
    /\ LET rows == feed_ids(feeds)
       IN  ops' = Append(ops, Op("refresh_all", "", IF rows = <<>> THEN "ok" ELSE "run",
                                 rows, <<>>, <<>>))
    /\ UNCHANGED <<impl, feeds, articles>>
    /\ UNCHANGED pvars

\* the loop of refresh_all_feeds reaches its next feed: refresh_feed(feed.id)
NextFeedCore ==
    /\ \E k \in 1..Len(ops) :
         /\ Running(k)
         /\ ops[k].kind = "refresh_all"
         /\ impl = "core"
         /\ Len(ops[k].jobs) < Len(ops[k].rows)
         /\ \A j \in 1..Len(ops[k].jobs) : Finished(ops[k].jobs[j])
         /\ LET fid == ops[k].rows[Len(ops[k].jobs) + 1] IN
            \E out \in FetchOutcomes(UrlOf(fid)) :
              LET job == Begun(refresh_feed_begin(feeds, fid, out), k)
                  op == [ops[k] EXCEPT !.jobs = Append(@, job)]
              IN  ops' = [ops EXCEPT ![k] = Settle(op, Len(op.jobs))]
    /\ UNCHANGED <<impl, feeds, articles>>
    /\ UNCHANGED pvars

\* the refresh_all_feeds command: one spawned do_refresh per row
StartRefreshAllTauri ==
    /\ impl = "tauri"
    /\ Len(ops) < MaxOps
    /\ ~\E k \in 1..Len(ops) : ops[k].kind = "refresh_all"
    /\ LET rows == feed_ids(feeds) IN
       \E outs \in [1..Len(rows) -> UNION {FetchOutcomes(u) : u \in Urls}] :
         /\ \A r \in 1..Len(rows) : outs[r] \in FetchOutcomes(UrlOf(rows[r]))
         /\ LET jobs == [r \in 1..Len(rows) |->
                           Begun(do_refresh_begin(rows[r], UrlOf(rows[r]), outs[r]),
                                 Len(ops) + 1)]
                \* the tasks that failed at once are joined in spawn order
                RECURSIVE Joined(_, _)
                Joined(op, r) ==
                    IF r > Len(rows) THEN op
                    ELSE Joined(IF Finished(jobs[r])
                                THEN [op EXCEPT !.results = Append(@, tauri_result(jobs[r]))]
                                ELSE op,
                                r + 1)
                op == Joined(Op("refresh_all", "", "run", rows, jobs, <<>>), 1)
            IN  ops' = Append(ops,
                        IF \A r \in 1..Len(rows) : Finished(jobs[r])
                        THEN [op EXCEPT !.pc = "ok"] ELSE op)
    /\ UNCHANGED <<impl, feeds, articles>>
    /\ UNCHANGED pvars

\* one insert_article of a refresh; the storage call itself may fail
RefreshInsert ==
    /\ \E k \in 1..Len(ops) : \E j \in 1..Len(ops[k].jobs) :
         /\ Running(k)
         /\ ops[k].kind \in {"refresh", "refresh_all"}
         /\ ops[k].jobs[j].pc = "insert"
         /\ \E dbfail \in BOOLEAN :
              LET job == ops[k].jobs[j]
                  r == IF dbfail THEN [result |-> "Error", id |-> 0, articles |-> articles]
                       ELSE insert_article(articles, feeds, job.feed_id, job.entries[job.i])
                  job2 == [refresh_insert(job, r) EXCEPT
                             !.outcomes = Append(@, r.result),
                             !.added = @ + Cardinality(r.articles \ articles)]
                  op == [ops[k] EXCEPT !.jobs[j] = job2]
              IN  /\ articles' = r.articles
                  /\ ops' = [ops EXCEPT ![k] = Settle(op, j)]
    /\ UNCHANGED <<impl, feeds>>
    /\ UNCHANGED pvars

\* update_feed_last_fetched, then the refresh returns; the storage call
\* itself may fail
RefreshUpdate ==
    /\ \E k \in 1..Len(ops) : \E j \in 1..Len(ops[k].jobs) :
         /\ Running(k)
         /\ ops[k].kind \in {"refresh", "refresh_all"}
         /\ ops[k].jobs[j].pc = "update"
         /\ \E dbfail \in BOOLEAN :
              LET r == IF dbfail THEN "Error" ELSE "Ok"
                  op == [ops[k] EXCEPT !.jobs[j] = refresh_done(@, r)]
              IN  /\ feeds' = IF dbfail THEN feeds
                              ELSE update_feed_last_fetched(feeds, ops[k].jobs[j].feed_id)
                  /\ ops' = [ops EXCEPT ![k] = Settle(op, j)]
    /\ UNCHANGED <<impl, articles>>
    /\ UNCHANGED pvars

\* add_feed up to the feed insert: discovery, fetch, parse
\* (the server falls back to the literal url, the desktop command fails)
add_feed_begin(url, found, outcome) ==
    LET feed_url == IF found.ok /\ found.feeds # <<>> THEN found.feeds[1] ELSE url
    IN  fetch_and_parse(NewJob(0, feed_url), outcome)

tauri_add_feed_begin(url, found, outcome) ==
    IF ~found.ok THEN Fail(NewJob(0, url), "discovery")
    ELSE IF found.feeds = <<>> THEN Fail(NewJob(0, url), "No feed found at that URL")
    ELSE fetch_and_parse(NewJob(0, found.feeds[1]), outcome)

\* POST /feeds, or the add_feed command
StartAddFeed ==
    /\ Len(ops) < MaxOps
    /\ \E url \in Urls : \E found \in DiscoverOutcomes(url) :
       \E out \in FetchOutcomes(IF found.ok THEN found.feeds[1] ELSE url) :
         LET job == IF impl = "core" THEN add_feed_begin(url, found, out)
                    ELSE tauri_add_feed_begin(url, found, out)
             arg == [url |-> url, found |-> found]
         IN  ops' = Append(ops,
                      IF job.pc = "err" THEN Op("add", arg, "err", <<>>, <<job>>, <<>>)
                      ELSE Op("add", arg, "run", <<>>,
                              <<[job EXCEPT !.pc = "insert_feed"]>>, <<>>))
    /\ UNCHANGED <<impl, feeds, articles>>
    /\ UNCHANGED pvars

\* add_feed's return value names the new feed
AddReturned(op, feed_id) == Ended(op, "ok", <<[feed_id |-> feed_id]>>)

\* add_feed after the feed insert, r being insert_feed's return: an error is
\* fatal, else the article loop (or the final lookup, without entries)
add_feed_inserted(op, r) ==
    IF r.result = "Error" THEN Ended(op, "err", <<>>)
    ELSE LET job == [op.jobs[1] EXCEPT
                       !.feed_id = r.id,
                       !.pc = IF op.jobs[1].entries = <<>> THEN "lookup" ELSE "insert"]
         IN  [op EXCEPT !.rows = <<r.id>>, !.jobs = <<job>>]

AddInsertFeed ==
    /\ \E k \in 1..Len(ops) :
         /\ Running(k)
         /\ ops[k].kind = "add"
         /\ ops[k].jobs[1].pc = "insert_feed"
         /\ \E dbfail \in BOOLEAN :
              LET r == IF dbfail THEN [result |-> "Error", id |-> 0, feeds |-> feeds]
                       ELSE insert_feed(feeds, ops[k].jobs[1].feed_url,
                                        IF impl = "tauri" THEN 1 ELSE 0)
              IN  /\ feeds' = r.feeds
                  /\ ops' = [ops EXCEPT ![k] = add_feed_inserted(ops[k], r)]
    /\ UNCHANGED <<impl, articles>>
    /\ UNCHANGED pvars

\* an article loop that propagates a failed insert with `?`
add_feed_insert_propagating(op, r) ==
    IF r.result = "Error" THEN Ended(op, "err", <<>>)
    ELSE [op EXCEPT !.jobs[1].i = @ + 1,
                    !.jobs[1].pc = IF op.jobs[1].i + 1 > Len(op.jobs[1].entries)
                                   THEN "lookup" ELSE "insert"]

\* one `let _ = insert_article(..)` of add_feed, r being its return: the
\* outcome is dropped; after the last entry comes the final lookup
add_feed_insert(op, r) ==
    [op EXCEPT !.jobs[1].i = @ + 1,
               !.jobs[1].pc = IF op.jobs[1].i + 1 > Len(op.jobs[1].entries)
                              THEN "lookup" ELSE "insert"]

AddInsertArticle ==
    /\ \E k \in 1..Len(ops) :
         /\ Running(k)
         /\ ops[k].kind = "add"
         /\ ops[k].jobs[1].pc = "insert"
         /\ \E dbfail \in BOOLEAN :
              LET job == ops[k].jobs[1]
                  r == IF dbfail THEN [result |-> "Error", id |-> 0, articles |-> articles]
                       ELSE insert_article(articles, feeds, job.feed_id, job.entries[job.i])
                  op == [ops[k] EXCEPT
                           !.jobs[1].outcomes = Append(@, r.result),
                           !.jobs[1].added = @ + Cardinality(r.articles \ articles)]
              IN  /\ articles' = r.articles
                  /\ ops' = [ops EXCEPT ![k] = add_feed_insert(op, r)]
    /\ UNCHANGED <<impl, feeds>>
    /\ UNCHANGED pvars

\* add_feed's last statement, r being the return of the lookup of the new
\* feed with its metadata (get_feeds, get_feed_by_id): an error is returned
\* to the caller, else the feed
add_feed_return(op, r) ==
    IF r = "Error" THEN Ended(op, "err", <<>>)
    ELSE AddReturned(op, op.jobs[1].feed_id)

AddLookup ==
    /\ \E k \in 1..Len(ops) :
         /\ Running(k)
         /\ ops[k].kind = "add"
         /\ ops[k].jobs[1].pc = "lookup"
         /\ \E dbfail \in BOOLEAN :
              ops' = [ops EXCEPT ![k] = add_feed_return(ops[k], IF dbfail THEN "Error" ELSE "Ok")]
    /\ UNCHANGED <<impl, feeds, articles>>
    /\ UNCHANGED pvars

\* Database::insert_article called for one article
InsertArticle ==
    /\ Len(ops) < MaxOps
    /\ \E fid \in {1, 2} :
         LET r == insert_article(articles, feeds, fid, "g1")
         IN  /\ articles' = r.articles
             /\ ops' = Append(ops, Op("insert", "g1",
                                      IF r.result = "Error" THEN "err" ELSE "ok",
                                      <<fid>>, <<>>, <<[result |-> r.result]>>))
    /\ UNCHANGED <<impl, feeds>>
    /\ UNCHANGED pvars

\* the process dies, or the request's future is dropped, at an await point:
\* the operation takes no further step (a dropped JoinSet aborts its tasks)
Cancel ==
    /\ \E k \in 1..Len(ops) :
         /\ Running(k)
         /\ ops' = [ops EXCEPT ![k].pc = "cancelled"]
    /\ UNCHANGED <<impl, feeds, articles>>
    /\ UNCHANGED pvars

ParserIdle ==
    /\ doc = Garbage
    /\ events = <<>>
    /\ fmt = None
    /\ p = ParserInit(FeedUrl)
    /\ ppc = "done"
    /\ edit = NoEdit
    /\ parsed = <<>>

\* a fresh database, or one that holds two subscriptions and no article yet
Init ==
    /\ impl \in {"core", "tauri"}
    /\ feeds \in {{}, {FeedRow(1, "u1", 0), FeedRow(2, "u2", 0)}}
    /\ articles = {}
    /\ ops = <<>>
    /\ ParserIdle

Next ==
    \/ StartAddFeed
    \/ AddInsertFeed
    \/ AddInsertArticle
    \/ AddLookup
    \/ StartRefreshFeed
    \/ StartRefreshAllCore
    \/ NextFeedCore
    \/ StartRefreshAllTauri
    \/ RefreshInsert
    \/ RefreshUpdate
    \/ InsertArticle
    \/ Cancel

Spec == Init /\ [][Next]_vars


-----------------------------------------------------------------------------
(* Properties of the ingestion coordinator (Spec) *)

RefreshKinds == {"refresh", "refresh_all"}

\* the refreshes begun so far, each as <<operation, job>>
RefreshJobs ==
    UNION {{<<k, j>> : j \in 1..Len(ops[k].jobs)} :
             k \in {x \in 1..Len(ops) : ops[x].kind \in RefreshKinds}}

JobAt(kj) == ops[kj[1]].jobs[kj[2]]

JobsOn(fid) == {kj \in RefreshJobs : JobAt(kj).feed_id = fid}

Rows(fid) == {a \in articles : a.feed_id = fid}

Range(seq) == {seq[i] : i \in 1..Len(seq)}

InsertedCount(job) ==
    Cardinality({i \in 1..Len(job.outcomes) : job.outcomes[i] = "Inserted"})

\* C1: after any sequence of add_feed, refresh_feed, refresh_all_feeds and
\* insert_article operations, concurrent ones included, storage never holds
\* two articles with the same (feed_id, guid) pair
C1_UniqueFeedGuid ==
    \A a \in articles : \A b \in articles :
        (a.feed_id = b.feed_id /\ a.guid = b.guid) => a = b

\* an insert_article met the pair already stored by a refresh, and a refresh
\* met a pair already stored
C1_Witness ==
    /\ \E k \in 1..Len(ops) :
         /\ ops[k].kind = "insert"
         /\ ops[k].results[1].result = "Ignored"
         /\ Cardinality({a \in Rows(ops[k].rows[1]) : a.guid = ops[k].arg}) = 1
    /\ \E kj \in RefreshJobs : JobAt(kj).added > 0

\* C2: inserting the same entry twice for the same feed_id and guid returns
\* Inserted and then Ignored, and a refresh that runs after a refresh of the
\* same feed returned Ok, the source unchanged, counts no new article
C2_Idempotent ==
    /\ \A k \in 1..Len(ops) : \A l \in 1..Len(ops) :
         ( /\ k < l
           /\ ops[k].kind = "insert" /\ ops[l].kind = "insert"
           /\ ops[k].rows = ops[l].rows /\ ops[k].arg = ops[l].arg
           /\ ops[k].results[1].result = "Inserted" )
         => ops[l].results[1].result = "Ignored"
    /\ \A kj \in RefreshJobs :
         JobAt(kj).after_ok =>
            /\ JobAt(kj).new_count = 0
            /\ \A i \in 1..Len(JobAt(kj).outcomes) : JobAt(kj).outcomes[i] # "Inserted"
            /\ \A k \in 1..Len(ops) :
                 (ops[k].kind = "refresh" /\ ops[k].pc = "ok" /\ k = kj[1]
                  /\ JobAt(kj).pc = "ok")
                 => ops[k].results[1].new_articles = 0

\* a feed refreshed twice: the first run had every entry Inserted, the second
\* had every one of them Ignored and returned zero
C2_Witness ==
    \E a \in RefreshJobs : \E b \in RefreshJobs :
        /\ JobAt(a).feed_id = JobAt(b).feed_id
        /\ JobAt(a).pc = "ok"
        /\ JobAt(a).outcomes = <<"Inserted", "Inserted">>
        /\ JobAt(b).after_ok
        /\ JobAt(b).pc = "ok"
        /\ JobAt(b).outcomes = <<"Ignored", "Ignored">>
        /\ ops[b[1]].kind = "refresh"
        /\ ops[b[1]].results[1].new_articles = 0

\* C3: refresh_all_feeds returns exactly one result per feed it enumerated,
\* whatever subset of the feeds fails: no failure ends the batch, every
\* enumerated feed is refreshed, none is missing from the results
C3_OneResultPerFeed ==
    \A k \in 1..Len(ops) :
        ops[k].kind = "refresh_all" =>
            /\ ops[k].pc # "err"
            /\ ops[k].pc = "ok" =>
                 /\ Len(ops[k].results) = Len(ops[k].rows)
                 /\ Len(ops[k].jobs) = Len(ops[k].rows)
                 /\ \A r \in 1..Len(ops[k].rows) :
                      /\ Finished(ops[k].jobs[r])
                      /\ ops[k].jobs[r].feed_id = ops[k].rows[r]
                      /\ Cardinality({i \in 1..Len(ops[k].results) :
                                        ops[k].results[i].feed_id = ops[k].rows[r]}) = 1

\* a batch over two feeds returned: the first feed failed, the second was
\* refreshed after it and added articles
C3_Witness ==
    \E k \in 1..Len(ops) :
        /\ ops[k].kind = "refresh_all"
        /\ ops[k].pc = "ok"
        /\ Len(ops[k].rows) = 2
        /\ ops[k].jobs[1].pc = "err"
        /\ ops[k].jobs[2].pc = "ok"
        /\ ops[k].jobs[2].new_count > 0
        /\ Len(ops[k].results) = 2

\* the result refresh_all_feeds returned for feed fid
ResultFor(op, fid) ==
    op.results[CHOOSE i \in 1..Len(op.results) : op.results[i].feed_id = fid]

\* C4: in a returned refresh_all_feeds, the result of a feed whose refresh
\* failed shows zero new articles and carries the recorded error
C4_FailedResultCarriesError ==
    \A k \in 1..Len(ops) :
        (ops[k].kind = "refresh_all" /\ ops[k].pc = "ok") =>
            \A j \in 1..Len(ops[k].jobs) :
                ops[k].jobs[j].pc = "err" =>
                    LET r == ResultFor(ops[k], ops[k].jobs[j].feed_id) IN
                    /\ r.new_articles = 0
                    /\ "error" \in DOMAIN r
                    /\ IsSome(r.error)

\* last_fetched_at as the feed's INSERT wrote it: the add_feed command
\* writes CURRENT_TIMESTAMP, every other row starts NULL
Base(f) ==
    IF impl = "tauri" /\ \E k \in 1..Len(ops) : ops[k].kind = "add" /\ ops[k].rows = <<f.id>>
    THEN 1 ELSE 0

\* the refreshes of feed fid that ended in one of the given ways
EndedAs(fid, ways) ==
    {kj \in JobsOn(fid) :
        \/ JobAt(kj).pc = "ok" /\ "ok" \in ways
        \/ JobAt(kj).pc = "err" /\ JobAt(kj).err \in ways}

C6_NewArticlesCountsInserted ==
    /\ \A kj \in RefreshJobs :
         /\ JobAt(kj).new_count = InsertedCount(JobAt(kj))
         /\ JobAt(kj).new_count = JobAt(kj).added
         /\ \A i \in 1..Len(JobAt(kj).outcomes) : \A l \in 1..Len(JobAt(kj).outcomes) :
              (i < l /\ JobAt(kj).entries[i] = JobAt(kj).entries[l]
               /\ JobAt(kj).outcomes[i] # "Error")
              => JobAt(kj).outcomes[l] # "Inserted"
    /\ \A k \in 1..Len(ops) :
         (ops[k].kind \in RefreshKinds /\ ops[k].pc = "ok") =>
            \A j \in 1..Len(ops[k].jobs) :
               ops[k].jobs[j].pc = "ok" =>
                  ResultFor(ops[k], ops[k].jobs[j].feed_id).new_articles
                     = InsertedCount(ops[k].jobs[j])

\* a returned refresh of the document that repeats one id: Inserted, then
\* Ignored, one new article reported
C6_Witness ==
    \E k \in 1..Len(ops) :
        /\ ops[k].kind = "refresh"
        /\ ops[k].pc = "ok"
        /\ ops[k].jobs[1].pc = "ok"
        /\ ops[k].jobs[1].entries = <<"g1", "g1">>
        /\ ops[k].jobs[1].outcomes = <<"Inserted", "Ignored">>
        /\ ops[k].results[1].new_articles = 1

\* the refreshes of feed fid were the only writers of its articles
OnlyRefreshed(fid) ==
    \A k \in 1..Len(ops) : InRows(ops[k], fid) => ops[k].kind \in RefreshKinds

\* C7: what an interrupted refresh inserted stays stored, and a later
\* complete refresh of the unchanged source, nothing else writing to the
\* feed meanwhile, inserts exactly the entries not yet stored and leaves the
\* feed's articles as one uninterrupted refresh leaves them
C7_Resumable ==
    /\ \A kj \in RefreshJobs :
         \A i \in 1..Len(JobAt(kj).outcomes) :
            JobAt(kj).outcomes[i] = "Inserted" =>
               \E a \in Rows(JobAt(kj).feed_id) : a.guid = JobAt(kj).entries[i]
    /\ \A kj \in RefreshJobs :
         ( /\ JobAt(kj).pc = "ok"
           /\ JobAt(kj).quiet
           /\ \A l \in 1..Len(ops) : l > kj[1] => ~InRows(ops[l], JobAt(kj).feed_id) )
         => /\ JobAt(kj).new_count = JobAt(kj).missing0
            /\ Range(JobAt(kj).entries) \subseteq StoredGuids(articles, JobAt(kj).feed_id)
            /\ OnlyRefreshed(JobAt(kj).feed_id) =>
                 /\ StoredGuids(articles, JobAt(kj).feed_id) = Range(JobAt(kj).entries)
                 /\ Cardinality(Rows(JobAt(kj).feed_id))
                      = Cardinality(Range(JobAt(kj).entries))

\* a refresh was cancelled after the first of its two inserts; the next
\* refresh of the feed inserted the one entry left and returned
C7_Witness ==
    \E a \in RefreshJobs : \E b \in RefreshJobs :
        /\ a[1] < b[1]
        /\ JobAt(a).feed_id = JobAt(b).feed_id
        /\ ops[a[1]].pc = "cancelled"
        /\ JobAt(a).outcomes = <<"Inserted">>
        /\ Len(JobAt(a).entries) = 2
        /\ JobAt(b).pc = "ok"
        /\ JobAt(b).quiet
        /\ JobAt(b).outcomes = <<"Ignored", "Inserted">>
        /\ JobAt(b).new_count = 1
        /\ Cardinality(Rows(JobAt(b).feed_id)) = 2

RECURSIVE SumNew(_)
SumNew(jobs) ==
    IF jobs = {} THEN 0
    ELSE LET kj == CHOOSE x \in jobs : TRUE
         IN  JobAt(kj).new_count + SumNew(jobs \ {kj})

\* the refreshes of feed fid that had guid returned as Inserted
InsertedBy(fid, guid) ==
    {kj \in JobsOn(fid) :
        \E i \in 1..Len(JobAt(kj).outcomes) :
            JobAt(kj).entries[i] = guid /\ JobAt(kj).outcomes[i] = "Inserted"}

\* C8: when refreshes of one feed run concurrently against the same source,
\* under every interleaving of their insert_article calls, each entry is
\* stored exactly once and reported as Inserted by exactly one refresh: the
\* new_articles of the refreshes add up to the number of articles added
C8_StoredOnceReportedOnce ==
    \A f \in feeds :
        OnlyRefreshed(f.id) =>
            /\ SumNew(JobsOn(f.id)) = Cardinality(Rows(f.id))
            /\ \A g \in StoredGuids(articles, f.id) :
                 /\ Cardinality({a \in Rows(f.id) : a.guid = g}) = 1
                 /\ Cardinality(InsertedBy(f.id, g)) = 1

\* two refreshes of one feed interleaved: each had one of the two entries
\* Inserted and the other Ignored
C8_Witness ==
    \E a \in RefreshJobs : \E b \in RefreshJobs :
        /\ a[1] # b[1]
        /\ JobAt(a).feed_id = JobAt(b).feed_id
        /\ JobAt(a).pc = "ok"
        /\ JobAt(b).pc = "ok"
        /\ JobAt(a).outcomes = <<"Inserted", "Ignored">>
        /\ JobAt(b).outcomes = <<"Ignored", "Inserted">>
        /\ Cardinality(Rows(JobAt(a).feed_id)) = 2


AddOps == {k \in 1..Len(ops) : ops[k].kind = "add"}

\* C15: add_feed fetches the first discovery candidate when discovery returns
\* one, and when discovery fails or returns no candidate it goes on with the
\* literal url the user supplied (the GET of that url is sent) instead of
\* failing
C15_FirstCandidateElseLiteral ==
    \A k \in AddOps :
        LET found == ops[k].arg.found
            job == ops[k].jobs[1]
        IN  /\ job.fetched
            /\ job.feed_url = IF found.ok /\ found.feeds # <<>> THEN found.feeds[1]
                               ELSE ops[k].arg.url

\* C16: in add_feed a failed feed insert fails the operation before any
\* article is submitted (no article is submitted before the feed is stored),
\* whereas an article insert that fails is swallowed: once the feed is stored
\* every entry is submitted whatever the earlier inserts returned, and the
\* operation can no longer fail in the loop, only in the lookup that follows
C16_FeedFatalArticlesSwallowed ==
    \A k \in AddOps :
        LET op == ops[k]
            job == ops[k].jobs[1]
        IN  /\ (op.pc = "err" /\ job.pc = "insert_feed")
                  => (job.outcomes = <<>> /\ job.added = 0 /\ op.rows = <<>>)
            /\ job.outcomes # <<>>
                  => (op.rows = <<job.feed_id>> /\ \E f \in feeds : f.id = job.feed_id)
            /\ (op.pc \in {"ok", "err"} /\ op.rows # <<>>)
                  => (Len(job.outcomes) = Len(job.entries) /\ job.pc = "lookup")
            /\ (job.pc = "lookup" /\ op.pc = "run")
                  => Len(job.outcomes) = Len(job.entries)

\* one add_feed returned its feed although its first article insert failed
\* and its second was stored, another ended at its failed feed insert
C16_Witness ==
    /\ \E k \in AddOps :
         /\ ops[k].pc = "ok"
         /\ ops[k].jobs[1].outcomes = <<"Error", "Inserted">>
         /\ ops[k].results = <<[feed_id |-> ops[k].jobs[1].feed_id]>>
    /\ \E k \in AddOps :
         /\ ops[k].pc = "err"
         /\ ops[k].jobs[1].pc = "insert_feed"
         /\ ops[k].jobs[1].entries # <<>>

\* C17: refresh_feed for a feed id that storage does not know fails, and it
\* fails before anything else: no GET is sent, no article insert is
\* submitted, and the refresh never reaches the last-fetched update
C17_UnknownFeedFailsFirst ==
    \A k \in 1..Len(ops) :
        (ops[k].kind = "refresh" /\ ~ops[k].arg.known) =>
            LET job == ops[k].jobs[1]
            IN  /\ ops[k].pc = "err"
                /\ ops[k].results = <<>>
                /\ job.pc = "err"
                /\ ~job.fetched
                /\ job.outcomes = <<>> /\ job.added = 0

\* feed 3 was refreshed while storage held feeds 1 and 2 only, and the
\* refresh of a known feed after it stored articles and returned Ok
C17_Witness ==
    \E k \in 1..Len(ops) : \E l \in 1..Len(ops) :
        /\ k < l
        /\ ops[k].kind = "refresh" /\ ~ops[k].arg.known /\ ops[k].rows = <<3>>
        /\ ops[k].pc = "err"
        /\ ops[l].kind = "refresh" /\ ops[l].arg.known /\ ops[l].pc = "ok"
        /\ ops[l].jobs[1].added = 2

\* the steps that are one insert_article call for feed fid and guid g
IsInsertCall(fid, g) ==
    /\ Len(ops') = Len(ops) + 1
    /\ ops'[Len(ops')].kind = "insert"
    /\ ops'[Len(ops')].rows = <<fid>>
    /\ ops'[Len(ops')].arg = g

\* C32: deduplication is per feed: an insert of an article is ignored only
\* when an article with the same feed_id and the same guid is stored, and
\* then nothing changes; an article of a known feed whose pair is not stored
\* is stored, whatever guids the other feeds hold, so that one guid arriving
\* under two feeds gives two stored articles
C32_DedupPerFeed ==
    [][\A fid \in {1, 2} :
         IsInsertCall(fid, "g1") =>
            LET result == ops'[Len(ops')].results[1].result
                stored == \E a \in articles : a.feed_id = fid /\ a.guid = "g1"
                known == \E f \in feeds : f.id = fid
            IN  /\ result = "Ignored" <=> stored
                /\ result = "Ignored" => articles' = articles
                /\ (known /\ ~stored) =>
                     /\ result = "Inserted"
                     /\ \E a \in articles' \ articles :
                          /\ a.feed_id = fid
                          /\ a.guid = "g1"
                          /\ articles' = articles \cup {a}]_vars

\* guid g1 was inserted for feed 1 and then for feed 2: both calls returned
\* Inserted and storage holds the two articles
C32_Witness ==
    /\ Len(ops) = 2
    /\ ops[1].kind = "insert" /\ ops[1].rows = <<1>> /\ ops[1].results[1].result = "Inserted"
    /\ ops[2].kind = "insert" /\ ops[2].rows = <<2>> /\ ops[2].results[1].result = "Inserted"
    /\ Cardinality({a \in articles : a.guid = "g1"}) = 2

\* the returned refresh_all_feeds commands of the desktop application
ReturnedBatches ==
    {k \in 1..Len(ops) : impl = "tauri" /\ ops[k].kind = "refresh_all" /\ ops[k].pc = "ok"}

\* what the task of a job returned: the count of do_refresh, or its error
TaskResult(job) ==
    [feed_id |-> job.feed_id,
     new_articles |-> IF job.pc = "ok" THEN job.new_count ELSE 0,
     error |-> IF job.pc = "ok" THEN None ELSE Some(job.err)]

\* C33: the concurrent refresh_all_feeds returns only after every per-feed
\* task it started has finished, so that none writes to storage after the
\* return, and its result list is a permutation of the tasks' results, in
\* no guaranteed order
C33_JoinedBeforeReturn ==
    \A k \in ReturnedBatches :
        /\ Len(ops[k].jobs) = Len(ops[k].rows)
        /\ \A j \in 1..Len(ops[k].jobs) : Finished(ops[k].jobs[j])
        /\ \E perm \in [1..Len(ops[k].jobs) -> 1..Len(ops[k].jobs)] :
             /\ \A i \in 1..Len(ops[k].jobs) : \A j \in 1..Len(ops[k].jobs) :
                  perm[i] = perm[j] => i = j
             /\ ops[k].results = [i \in 1..Len(ops[k].jobs) |-> TaskResult(ops[k].jobs[perm[i]])]

\* a batch over two feeds returned after both tasks finished with new
\* articles, the second feed's result standing first
C33_Witness ==
    \E k \in ReturnedBatches :
        /\ ops[k].rows = <<1, 2>>
        /\ ops[k].jobs[1].pc = "ok" /\ ops[k].jobs[1].added > 0
        /\ ops[k].jobs[2].pc = "ok" /\ ops[k].jobs[2].added > 0
        /\ ops[k].results[1].feed_id = 2
        /\ ops[k].results[2].feed_id = 1

\* the failures of the fetch, of the format detection and of the parse
FetchParseErrors == {"transport", "UnknownFormat", "Xml", "MissingField"}

\* C38: when fetching, format detection or parsing fails during add_feed or
\* refresh_feed, the operation fails without having written to storage: the
\* step that fails leaves the feeds and the articles as they are (no feed
\* record, no article, no last-fetched update), the operation has submitted
\* no insert, and it takes no step afterwards.  The failure reaches the
\* caller as an error, or, from the desktop refresh_feed command, whose
\* do_refresh has failed, as a result of no new article that carries it
C38_FailedFetchWritesNothing ==
    [][\A k \in 1..Len(ops') :
         (/\ ops'[k].kind \in {"add", "refresh"}
          /\ ops'[k].jobs[1].err \in FetchParseErrors) =>
            /\ \/ ops'[k].pc = "err" /\ ops'[k].results = <<>>
               \/ /\ impl = "tauri" /\ ops'[k].kind = "refresh" /\ ops'[k].pc = "ok"
                  /\ ops'[k].results = <<[feed_id |-> ops'[k].rows[1], new_articles |-> 0,
                                          error |-> Some(ops'[k].jobs[1].err)]>>
            /\ ops'[k].jobs[1].pc = "err"
            /\ ops'[k].jobs[1].outcomes = <<>>
            /\ ops'[k].jobs[1].added = 0
            /\ ops'[k].kind = "add" => ops'[k].rows = <<>>
            /\ IF k > Len(ops)
               THEN feeds' = feeds /\ articles' = articles
               ELSE ops'[k] = ops[k]]_vars

\* an add_feed failed on malformed XML and a refresh_feed of a stored feed
\* failed on a body that is no feed: storage holds what it held before, two
\* feeds never fetched and no article
C38_Witness ==
    /\ Len(ops) = 2
    /\ ops[1].kind = "add" /\ ops[1].jobs[1].err = "Xml" /\ ops[1].pc = "err"
    /\ ops[2].kind = "refresh" /\ ops[2].jobs[1].err = "UnknownFormat"
    /\ ops[2].jobs[1].pc = "err"
    /\ ops[2].arg.known
    /\ Cardinality(feeds) = 2
    /\ \A f \in feeds : f.last_fetched_at = 0
    /\ articles = {}

-----------------------------------------------------------------------------
(* ImportSpec: import_opml, one action per iteration of its loop over the   *)
(* URLs of the file, next to other requests that subscribe to feeds         *)

\* longest OPML file, in outline elements
MaxOutlines == 2

\* `for attr in e.attributes().flatten()`: the last xmlUrl or xmlurl
\* attribute with a value that is not empty
RECURSIVE xml_url(_)
xml_url(attrs) ==
    IF attrs = <<>> THEN None
    ELSE LET last == attrs[Len(attrs)] IN
         IF full_name(last[1]) \in {"xmlUrl", "xmlurl"} /\ last[2] # ""
         THEN Some(last[2])
         ELSE xml_url(SubSeq(attrs, 1, Len(attrs) - 1))

\* parse_opml's loop: the URLs pushed up to end of input, or the reader's error
RECURSIVE opml_urls(_)
opml_urls(evs) ==
    IF evs = <<>> \/ evs[1].kind = "Eof" THEN [result |-> "Ok", urls |-> <<>>]
    ELSE IF evs[1].kind = "Err" THEN [result |-> "ParseError", urls |-> <<>>]
    ELSE LET rest == opml_urls(Tail(evs))
             here == IF evs[1].kind \in {"Start", "Empty"}
                        /\ full_name(evs[1].name) = "outline"
                     THEN xml_url(evs[1].attrs) ELSE None
         IN  IF rest.result # "Ok" THEN rest ELSE [rest EXCEPT !.urls = here \o @]

\* parse_opml: the feed URLs of the file in document order; no URL is an error
parse_opml(evs) ==
    LET r == opml_urls(evs) IN
    IF r.result = "Ok" /\ r.urls = <<>> THEN [result |-> "NoFeeds", urls |-> <<>>] ELSE r

\* the outline elements of the files: feeds, one of them twice under two
\* spellings, a folder, an empty URL, two URL attributes, a prefixed element
Outlines ==
    {Empty(N("outline"), <<<<N("text"), "x">>, <<N("xmlUrl"), "u1">>>>),
     Empty(N("outline"), <<<<N("xmlUrl"), "U1">>>>),
     Empty(N("outline"), <<<<N("xmlUrl"), "u2">>, <<N("xmlurl"), "">>>>),
     Start(N("outline"), <<<<N("xmlUrl"), "u2">>, <<N("xmlurl"), "u1">>>>),
     Start(N("outline"), <<<<N("text"), "x">>>>),
     Empty(N("outline"), <<<<N("xmlUrl"), "">>>>),
     Empty(Name("x", "outline"), <<<<N("xmlUrl"), "u2">>>>)}

OpmlDocs ==
    [family : {"opml"},
     outlines : UNION {[1..n -> Outlines] : n \in 1..MaxOutlines},
     delivery : {"text", "malformed"}]

OpmlEvents(d) ==
    <<Decl, Start(N("opml"), <<>>), Start(N("body"), <<>>)>> \o d.outlines
      \o (IF d.delivery = "malformed" THEN <<XmlErr>>
          ELSE <<End(N("body")), End(N("opml")), Eof>>)

\* the locals of import_opml; seen is history kept for the properties: the
\* URL each iteration of the loop was entered with
ImportInit ==
    [pc |-> "parse", urls |-> <<>>, i |-> 1, existing |-> {},
     added |-> 0, skipped |-> 0, errors |-> <<>>, seen |-> <<>>]

\* the loop goes to its next URL, or import_opml returns the counts
NextUrl(st) ==
    [st EXCEPT !.seen = Append(@, st.urls[st.i]),
               !.i = @ + 1,
               !.pc = IF st.i + 1 > Len(st.urls) THEN "done" ELSE "loop"]

Imported(st, fds, arts) == [st |-> st, feeds |-> fds, articles |-> arts]

\* `let _ = insert_article(..)` for every entry, in order
RECURSIVE insert_entries(_, _, _, _)
insert_entries(arts, fds, feed_id, guids) ==
    IF guids = <<>> THEN arts
    ELSE insert_entries(insert_article(arts, fds, feed_id, guids[1]).articles,
                        fds, feed_id, Tail(guids))

\* add_feed after fetch and parse (job): the feed insert, the article
\* inserts, the final lookup; fail names the storage call that fails, if any
add_feed_store(fds, arts, job, fail) ==
    IF job.pc = "err" THEN [result |-> job.err, feeds |-> fds, articles |-> arts]
    ELSE LET r == IF fail = "insert" THEN [result |-> "Error", id |-> 0, feeds |-> fds]
                  ELSE insert_feed(fds, job.feed_url, 0)
         IN  IF r.result = "Error"
             THEN [result |-> "insert_feed", feeds |-> fds, articles |-> arts]
             ELSE [result |-> IF fail = "select" THEN "get_feeds" ELSE "Ok",
                   feeds |-> r.feeds,
                   articles |-> insert_entries(arts, r.feeds, r.id, job.entries)]

\* FeedService::add_feed from its call to its return
add_feed(fds, arts, url, found, outcome, fail) ==
    add_feed_store(fds, arts, add_feed_begin(url, found, outcome), fail)

\* POST /feeds/import up to its loop: parse_opml, then the feed URLs stored
\* now, in lower case
import_opml_begin(st, evs, fds, fail) ==
    LET r == parse_opml(evs) IN
    IF r.result # "Ok" \/ fail = "select" THEN [st EXCEPT !.pc = "err"]
    ELSE [st EXCEPT !.pc = "loop", !.urls = r.urls,
                    !.existing = {to_lowercase(f.feed_url) : f \in fds}]

\* the import_opml command up to its loop
tauri_import_opml_begin(st, evs) ==
    LET r == parse_opml(evs) IN
    IF r.result # "Ok" THEN [st EXCEPT !.pc = "err"]
    ELSE [st EXCEPT !.pc = "loop", !.urls = r.urls]

\* a match on add_feed's return that drops its error
import_opml_added_dropping_errors(st, a) ==
    IF a.result = "Ok"
    THEN Imported(NextUrl([st EXCEPT !.added = @ + 1]), a.feeds, a.articles)
    ELSE Imported(NextUrl(st), a.feeds, a.articles)

\* `match add_feed(&url).await`, a being add_feed's return: Ok is counted
\* as added, an error is pushed with its URL
import_opml_added(st, a) ==
    IF a.result = "Ok"
    THEN Imported(NextUrl([st EXCEPT !.added = @ + 1]), a.feeds, a.articles)
    ELSE Imported(NextUrl([st EXCEPT !.errors = Append(@, <<st.urls[st.i], a.result>>)]),
                  a.feeds, a.articles)

\* one iteration of the server's loop: a URL stored when the import began is
\* skipped, any other is added
import_opml_url(st, fds, arts, found, outcome, fail) ==
    IF to_lowercase(st.urls[st.i]) \in st.existing
    THEN Imported(NextUrl([st EXCEPT !.skipped = @ + 1]), fds, arts)
    ELSE import_opml_added(st, add_feed(fds, arts, st.urls[st.i], found, outcome, fail))

\* one iteration of the desktop command's loop, job being the fetch and
\* parse of the URL: a failed lookup ends the command, a URL stored now is
\* skipped, else fetch, parse, insert
tauri_import_opml_fetched(st, fds, arts, job, fail) ==
    LET url == st.urls[st.i]
        r == IF fail = "insert" THEN [result |-> "Error", id |-> 0, feeds |-> fds]
             ELSE insert_feed(fds, url, 1)
    IN  IF fail = "select" THEN Imported([st EXCEPT !.pc = "err"], fds, arts)
        ELSE IF \E f \in fds : f.feed_url = url
        THEN Imported(NextUrl([st EXCEPT !.skipped = @ + 1]), fds, arts)
        ELSE IF job.pc = "err"
        THEN Imported(NextUrl([st EXCEPT !.errors = Append(@, <<url, job.err>>)]), fds, arts)
        ELSE IF r.result = "Error"
        THEN Imported(NextUrl([st EXCEPT !.errors = Append(@, <<url, "insert_feed">>)]),
                      fds, arts)
        ELSE Imported(NextUrl([st EXCEPT !.added = @ + 1]), r.feeds,
                      insert_entries(arts, r.feeds, r.id, job.entries))

tauri_import_opml_url(st, fds, arts, outcome, fail) ==
    tauri_import_opml_fetched(st, fds, arts,
                              fetch_and_parse(NewJob(0, st.urls[st.i]), outcome), fail)

StorageFailures == {"none", "select", "insert"}

ImportSpecInit ==
    /\ doc \in OpmlDocs
    /\ events = OpmlEvents(doc)
    /\ fmt = None
    /\ p = ImportInit
    /\ ppc = "import"
    /\ edit = NoEdit
    /\ parsed = <<>>
    /\ impl \in {"core", "tauri"}
    /\ feeds \in {{}, {FeedRow(1, "u1", 0), FeedRow(2, "u2", 0)}}
    /\ articles = {}
    /\ ops = <<>>

ImportBegin ==
    /\ p.pc = "parse"
    /\ \E fail \in StorageFailures \ {"insert"} :
         p' = IF impl = "core" THEN import_opml_begin(p, events, feeds, fail)
              ELSE tauri_import_opml_begin(p, events)
    /\ UNCHANGED <<doc, events, fmt, ppc, edit, parsed>>
    /\ UNCHANGED cvars

ImportUrl ==
    /\ impl = "core"
    /\ p.pc = "loop"
    /\ \E found \in DiscoverOutcomes(p.urls[p.i]) :
       \E out \in FetchOutcomes(IF found.ok THEN found.feeds[1] ELSE p.urls[p.i]) :
       \E fail \in StorageFailures :
         LET r == import_opml_url(p, feeds, articles, found, out, fail)
         IN  /\ p' = r.st
             /\ feeds' = r.feeds
             /\ articles' = r.articles
    /\ UNCHANGED <<doc, events, fmt, ppc, edit, parsed, impl, ops>>

TauriImportUrl ==
    /\ impl = "tauri"
    /\ p.pc = "loop"
    /\ \E out \in FetchOutcomes(p.urls[p.i]) : \E fail \in StorageFailures :
         LET r == tauri_import_opml_url(p, feeds, articles, out, fail)
         IN  /\ p' = r.st
             /\ feeds' = r.feeds
             /\ articles' = r.articles
    /\ UNCHANGED <<doc, events, fmt, ppc, edit, parsed, impl, ops>>

\* another request stores a subscription while the import is in its loop
Subscribe ==
    /\ p.pc = "loop"
    /\ \E url \in {"u1", "u2"} :
         /\ ~\E f \in feeds : f.feed_url = url
         /\ feeds' = insert_feed(feeds, url, 0).feeds
    /\ UNCHANGED <<impl, articles, ops>>
    /\ UNCHANGED pvars

ImportNext ==
    \/ ImportBegin
    \/ ImportUrl
    \/ TauriImportUrl
    \/ Subscribe

ImportSpec == ImportSpecInit /\ [][ImportNext]_vars

\* one iteration of the loop: it is entered with the next URL of the file
\* and it adds one to exactly one of added, skipped and the errors
OneUrlCounted ==
    (p.pc = "loop" /\ p'.pc \in {"loop", "done"} /\ p' # p) =>
        /\ p'.seen = Append(p.seen, p.urls[p.i])
        /\ p'.urls = p.urls
        /\ <<p'.added - p.added, p'.skipped - p.skipped, Len(p'.errors) - Len(p.errors)>>
             \in {<<1, 0, 0>>, <<0, 1, 0>>, <<0, 0, 1>>}
        /\ Len(p'.errors) > Len(p.errors) =>
             /\ SubSeq(p'.errors, 1, Len(p.errors)) = p.errors
             /\ p'.errors[Len(p'.errors)][1] = p.urls[p.i]

\* the counts of an import that has returned them
AllUrlsCounted ==
    p.pc = "done" =>
        /\ p.urls = parse_opml(events).urls
        /\ p.seen = p.urls
        /\ p.added + p.skipped + Len(p.errors) = Len(p.urls)

\* C40: whenever import_opml returns a result, every feed URL extracted from
\* the OPML file was processed exactly once, in the order of the file, and is
\* counted in exactly one of added, skipped or errors: added + skipped + the
\* number of errors is the number of extracted URLs, also when the file lists
\* a URL more than once
C40_EveryUrlCountedOnce ==
    /\ []AllUrlsCounted
    /\ [][OneUrlCounted]_vars

\* the server has imported a file that lists one URL twice into an empty
\* database: the first is added, the second, not among the URLs stored when
\* the import began, fails at the feed insert
C40_Witness ==
    /\ impl = "core"
    /\ p.pc = "done"
    /\ p.urls = <<"u1", "u1">>
    /\ p.added = 1
    /\ p.skipped = 0
    /\ p.errors = <<<<"u1", "insert_feed">>>>

=============================================================================
